---------------------------- MODULE Spec2Model ----------------------------
(***************************************************************************)
(* Runtime support layer of the MMVN commerce assistant:                   *)
(*   - the pre-LLM context filter                                          *)
(*       (app/tools/context_optimized_tools.py)                            *)
(*   - the background persistence queue, its worker and the SQLite index   *)
(*       (app/runner_config.py, app/persistence_sqlite.py)                 *)
(*   - the tool path that persists search artifacts                        *)
(*       (app/tools/search.py, app/tools/artifact_tools.py)                *)
(*   - the EWMA latency statistic (app/runner_config.py)                   *)
(*   - the per-session state store (app/tools/session_state.py)            *)
(*   - the search response shaper                                          *)
(*       (app/tools/context_optimized_tools.py)                            *)
(***************************************************************************)
EXTENDS Integers, Sequences, FiniteSets, TLC

(***************************************************************************)
(* Bounds of the model.                                                    *)
(***************************************************************************)
\* longest conversation history handed to the context filter
MaxContents == 3
\* number of concurrent run_with_memory callers (turn handlers)
NumHandlers == 2
\* number of file or INSERT failures the environment injects in one run
MaxWriteFailures == 1
\* number of search_products calls the agents make in one run
MaxToolCalls == 1

\* number of _update_ewma_latency calls made in one run
MaxUpdates == 3

\* number of session-state accessor calls made in one run
MaxAccessorCalls == 3

\* longest product list handed to optimize_search_response
MaxRecords == 12
\* entries in the list handed to the comparison / exploration shaper
MaxEntries == 6
\* items found in the persist queue by a worker that is handed arbitrary items
MaxQueued == 3
\* init_db and save_dialog calls made by threads that call the store directly
MaxStoreCalls == 4

\* Python None
None == "None"

Max(a, b) == IF a >= b THEN a ELSE b
Min(a, b) == IF a <= b THEN a ELSE b
Range(s) == {s[i] : i \in 1..Len(s)}

VARIABLES
    \* ---- context filter (one call of filter_llm_request_contents) ----
    contents,                  \* the argument: list of Content
    num_invocations_to_keep,   \* keyword argument
    token_budget,              \* keyword argument
    max_part_chars,            \* keyword argument
    filter_pc,                 \* "call" before the call, "done" after it
    filtered                   \* the returned list

filter_vars == <<contents, num_invocations_to_keep, token_budget,
                 max_part_chars, filter_pc, filtered>>

VARIABLES
    \* ---- runner_config.py: module state ----
    persist_queue,     \* _persist_queue, a deque of items
    worker_started,    \* _worker_started
    worker_lock,       \* _worker_lock: Unlocked or the handler holding it
    threads,           \* number of persist-worker threads started so far
    \* ---- persistence_sqlite.py / artifact_tools.py ----
    db_lock,           \* _lock: Unlocked, WorkerThread or the handler holding it
    db_path,           \* _db_path: None or the path init_db stored
    tables,            \* the SQLite tables: dialogs (in INSERT order), artifacts, searches
    files,             \* the JSON files write_json_artifact has written
    \* ---- one run_with_memory call per handler ----
    pc,                \* position of each handler
    response,          \* the local `response` of each handler
    returned,          \* what run_with_memory returned (None before it returns)
    tool_result,       \* what search_products returned to the agent (None: not called)
    \* ---- the persist-worker thread ----
    w_pc,              \* position of the worker ("none": no thread yet)
    w_item,            \* the item it popped
    \* ---- history (not program state) ----
    handled,           \* ids of the popped items, in pop order
    appended,          \* ids of the appended items, in append order
    write_failed,      \* ids of the items one of whose writes raised
    faults,            \* file and INSERT failures injected so far
    tool_calls,        \* search_products calls made so far
    warnings,          \* ids logged by "Persist dialog failed" (line 77)
    \* ---- threads calling persistence_sqlite.py directly ----
    st_pc,             \* position of each caller: "idle", "call", "locked"
    st_arg,            \* its call: the path given to init_db, or "save_dialog"
    st_out,            \* how its last call ended: "returned" or "raised"
    st_calls           \* calls made so far

caller_vars == <<st_pc, st_arg, st_out, st_calls>>

persist_vars == <<persist_queue, worker_started, worker_lock, threads, db_lock,
                  db_path, tables, files, pc, response, returned, tool_result,
                  w_pc, w_item,
                  handled, appended, write_failed, faults, tool_calls,
                  warnings, caller_vars>>

VARIABLES
    \* ---- runner_config.py: EWMA latency tracking ----
    ewma_latency_seconds,  \* _ewma_latency_seconds: NoEwma or the value, in 1/Scale s
    total_runs,            \* _total_runs
    \* ---- one _update_ewma_latency call per caller ----
    lat_pc,            \* position of each caller
    elapsed_seconds,   \* the argument of each caller
    lat_runs,          \* the value of _total_runs a caller has loaded
    lat_ewma,          \* the value of _ewma_latency_seconds a caller has loaded
    \* ---- history ----
    lat_log,           \* the arguments of the calls made, in call order
    lat_overlap        \* TRUE once a call began while another was running

latency_vars == <<ewma_latency_seconds, total_runs, lat_pc, elapsed_seconds,
                  lat_runs, lat_ewma, lat_log, lat_overlap>>

VARIABLES
    \* ---- session_state.py: the `state` dict of one session ----
    state,             \* the entry under SESSION_ROOT_KEY and its sections
    \* ---- history ----
    calls,             \* number of accessor calls made
    last_call,         \* name of the last accessor called
    last_args,         \* its arguments and the value found stored, where a property needs them
    first_root,        \* what the root entry was before the first call
    added              \* per category, the refs passed to add_artifact_ref, in call order

session_vars == <<state, calls, last_call, last_args, first_root, added>>

VARIABLES
    \* ---- one call of optimize_search_response ----
    search_data,       \* the argument: products and search_metadata
    user_query,        \* the argument: "" or a query
    shape_pc,          \* "call" before the call, "done" after it
    json_response,     \* the returned payload, before json.dumps
    \* ---- one call of optimize_compare_response ----
    compare_data,      \* the argument: the products to compare
    compare_pc,        \* "call" before the call, "done" after it
    compare_response,  \* the returned payload, before json.dumps
    \* ---- one call of optimize_explore_response ----
    explore_data,      \* the argument: the categories found
    explore_pc,        \* "call" before the call, "done" after it
    explore_response   \* the returned payload, before json.dumps

search_shaper_vars == <<search_data, user_query, shape_pc, json_response>>
compare_shaper_vars == <<compare_data, compare_pc, compare_response>>
explore_shaper_vars == <<explore_data, explore_pc, explore_response>>
shaper_vars == <<search_shaper_vars, compare_shaper_vars, explore_shaper_vars>>

\* the state the persistence path never touches
offpath_vars == <<filter_vars, latency_vars, session_vars, shaper_vars, caller_vars>>

(***************************************************************************)
(* Context filter.  A Part is a text of a given length (cut = TRUE once    *)
(* the filter has replaced it by its truncation) or a non-text part.  A    *)
(* Content carries its position in the input as id, so that a turn of the  *)
(* output can be traced back to the turn of the input it comes from.       *)
(***************************************************************************)
TextPart(n) == [kind |-> "text", len |-> n, cut |-> FALSE]
BlobPart == [kind |-> "blob", len |-> 0, cut |-> FALSE]

Roles == {"user", "model", "tool"}
PartLists == { <<TextPart(4)>>, <<TextPart(12)>>, <<TextPart(4), BlobPart>> }
KeepChoices == {-1, 0, 1, 2}
BudgetChoices == {0, 2, 3, 6}
PartCharsChoices == {4, 12}

\* len(text) // 3.7 : the double nearest to 3.7 is a little above 3.7, so
\* the floor division yields one less than 10*len/37 when 37 divides len.
FloorDiv37(n) ==
    IF (10 * n) % 37 = 0 THEN Max(0, (10 * n) \div 37 - 1) ELSE (10 * n) \div 37

estimate_tokens(n) == IF n = 0 THEN 0 ELSE Max(1, FloorDiv37(n))

\* the loop of lines 60-69: close a group at every model-role Content; an
\* open trailing group is an invocation of its own
RECURSIVE SplitInvocations(_, _, _, _)
SplitInvocations(cs, i, current_invocation, invocations) ==
    IF i > Len(cs)
    THEN IF current_invocation # <<>>
         THEN Append(invocations, current_invocation)
         ELSE invocations
    ELSE IF cs[i].role = "model"
         THEN SplitInvocations(cs, i + 1, <<>>,
                  Append(invocations, Append(current_invocation, cs[i])))
         ELSE SplitInvocations(cs, i + 1, Append(current_invocation, cs[i]),
                  invocations)

Invocations(cs) == SplitInvocations(cs, 1, <<>>, <<>>)

\* invocations[-n:] if n > 0 else invocations
KeptInvocations(invocations, n) ==
    IF n > 0
    THEN SubSeq(invocations, Max(1, Len(invocations) - n + 1), Len(invocations))
    ELSE invocations

RECURSIVE Flatten(_)
Flatten(invs) == IF invs = <<>> THEN <<>> ELSE Head(invs) \o Flatten(Tail(invs))

\* a part of exactly max_part_chars characters truncated too
ShrinkPartOffByOne(p, maxc) ==
    IF p.len >= maxc THEN [kind |-> "text", len |-> maxc + 1, cut |-> TRUE] ELSE p

\* one part through _shrink_content: txt[:max_part_chars] + ellipsis
ShrinkPart(p, maxc) ==
    IF p.len > maxc THEN [kind |-> "text", len |-> maxc + 1, cut |-> TRUE] ELSE p

RECURSIVE ShrinkParts(_, _)
ShrinkParts(parts, maxc) ==
    IF parts = <<>> THEN <<>>
    ELSE IF Head(parts).kind # "text"
         THEN ShrinkParts(Tail(parts), maxc)
         ELSE <<ShrinkPart(Head(parts), maxc)>> \o ShrinkParts(Tail(parts), maxc)

shrink_content(c, maxc) == [c EXCEPT !.parts = ShrinkParts(c.parts, maxc)]

RECURSIVE PartsTokens(_)
PartsTokens(parts) ==
    IF parts = <<>> THEN 0
    ELSE (IF Head(parts).kind = "text" /\ Head(parts).len > 0
          THEN estimate_tokens(Head(parts).len) ELSE 0) + PartsTokens(Tail(parts))

RECURSIVE contents_tokens(_)
contents_tokens(cs) ==
    IF cs = <<>> THEN 0 ELSE PartsTokens(Head(cs).parts) + contents_tokens(Tail(cs))

\* while pruned and _contents_tokens(pruned) > token_budget: pruned.pop(0)
RECURSIVE PruneOldest(_, _)
PruneOldest(pruned, budget) ==
    IF pruned # <<>> /\ contents_tokens(pruned) > budget
    THEN PruneOldest(Tail(pruned), budget)
    ELSE pruned

Shrunk(cs, n, maxc) ==
    LET kept == Flatten(KeptInvocations(Invocations(cs), n))
    IN  [i \in 1..Len(kept) |-> shrink_content(kept[i], maxc)]

filter_llm_request_contents(cs, n, budget, maxc) ==
    IF cs = <<>> THEN cs
    ELSE LET shrunk == Shrunk(cs, n, maxc)
         IN  IF contents_tokens(shrunk) <= budget
             THEN shrunk
             ELSE PruneOldest(shrunk, budget)

\* histories: every list of at most MaxContents Contents, ids in order
Histories ==
    UNION { { [i \in 1..k |-> [id |-> i, role |-> r[i], parts |-> p[i]]] :
                r \in [1..k -> Roles], p \in [1..k -> PartLists] } :
            k \in 0..MaxContents }

FilterInit ==
    /\ contents \in Histories
    /\ num_invocations_to_keep \in KeepChoices
    /\ token_budget \in BudgetChoices
    /\ max_part_chars \in PartCharsChoices
    /\ filter_pc = "call"
    /\ filtered = <<>>

FilterCall ==
    /\ filter_pc = "call"
    /\ filtered' = filter_llm_request_contents(contents, num_invocations_to_keep,
                                               token_budget, max_part_chars)
    /\ filter_pc' = "done"
    /\ UNCHANGED <<contents, num_invocations_to_keep, token_budget, max_part_chars>>

(***************************************************************************)
(* Properties of the context filter.                                       *)
(***************************************************************************)
Ids(cs) == {cs[i].id : i \in 1..Len(cs)}
IdSeq(cs) == [i \in 1..Len(cs) |-> cs[i].id]
GroupIds(cs) == LET invs == Invocations(cs) IN [i \in 1..Len(invs) |-> IdSeq(invs[i])]
AllPlainShortText(cs, maxc) ==
    \A i \in 1..Len(cs) : \A j \in 1..Len(cs[i].parts) :
        cs[i].parts[j].kind = "text" /\ cs[i].parts[j].len <= maxc

\* C1: after the call, every Invocation of the input is either entirely in
\* the returned list or entirely absent from it.
C1_NoInvocationSplit ==
    filter_pc = "done" =>
        \A g \in Range(Invocations(contents)) :
            Ids(g) \subseteq Ids(filtered) \/ Ids(g) \cap Ids(filtered) = {}

\* C2: for a non-empty history the returned list contains every turn of the
\* most recent Invocation (so it is never empty), whatever the budget.
C2_NewestInvocationKept ==
    (filter_pc = "done" /\ contents # <<>>) =>
        LET invs == Invocations(contents)
        IN  Ids(invs[Len(invs)]) \subseteq Ids(filtered)

\* C3: with num_invocations_to_keep = N > 0 the returned list partitions into
\* at most N Invocation groups and these are the last groups of the input,
\* in order; with N <= 0 nothing is dropped unless the budget is exceeded.
C3_LastGroupsKept ==
    filter_pc = "done" =>
        LET inG == GroupIds(contents)
            outG == GroupIds(filtered)
        IN  /\ num_invocations_to_keep > 0 => Len(outG) <= num_invocations_to_keep
            /\ Len(outG) <= Len(inG)
            /\ outG = SubSeq(inG, Len(inG) - Len(outG) + 1, Len(inG))
            /\ (/\ num_invocations_to_keep <= 0
                /\ contents_tokens(Shrunk(contents, 0, max_part_chars)) <= token_budget)
               => Ids(filtered) = Ids(contents)

\* C4 as stated: whenever the estimate of the untrimmed history is within
\* the budget, the returned list equals the input.
C4_IdentityUnderBudget ==
    (filter_pc = "done" /\ contents_tokens(contents) <= token_budget)
        => filtered = contents

\* C4 amended: the filter is the identity when the estimate of the untrimmed
\* history is within the budget AND the history has no more Invocations than
\* num_invocations_to_keep (or that limit is <= 0) AND every part is a text
\* part of at most max_part_chars characters.
C4_IdentityWhenNothingToTrim ==
    (/\ filter_pc = "done"
     /\ contents_tokens(contents) <= token_budget
     /\ (num_invocations_to_keep <= 0
            \/ Len(Invocations(contents)) <= num_invocations_to_keep)
     /\ AllPlainShortText(contents, max_part_chars))
        => filtered = contents

C4_Witness ==
    /\ filter_pc = "done"
    /\ Len(Invocations(contents)) = 2
    /\ num_invocations_to_keep = 2
    /\ contents_tokens(contents) = token_budget
    /\ token_budget > 0
    /\ AllPlainShortText(contents, max_part_chars)
    /\ \E i \in 1..Len(contents) : contents[i].parts[1].len = max_part_chars
    /\ filtered = contents

(***************************************************************************)
(* Background persistence: runner_config.py, persistence_sqlite.py and the *)
(* tool path of tools/search.py.  Each handler is one call of              *)
(* run_with_memory; the session id of handler h is h.                      *)
(***************************************************************************)
Handlers == 1..NumHandlers
\* owner ids of the two locks: a handler, the persist-worker, or nobody
WorkerThread == 0
Unlocked == -1
\* no dict
NoItem == [type |-> "None"]
DB_PATH == "data/mmvn_runner.sqlite3"

\* the two enqueue_dialog_summary calls of one run_with_memory call
JobIds == Handlers \X {1, 2}

\* a dict whose agent_answer is left at its default
DialogItemAnswerDropped(h, k, answer) ==
    [type |-> "dialog_summary", session_id |-> h, agent_answer |-> "", seq |-> k]

\* enqueue_dialog_summary builds this dict (lines 82-89); seq tells the
\* pre-input item (1) from the post-response item (2) of the same call
DialogItem(h, k, answer) ==
    [type |-> "dialog_summary", session_id |-> h,
     agent_answer |-> IF answer = None THEN "" ELSE answer, seq |-> k]

ItemId(it) == <<it.session_id, it.seq>>

\* what a queue can hold: the dict of enqueue_dialog_summary, a dict of
\* another type, a dict without a type, the empty dict
ItemTypes == {"dialog_summary", "explore_summary", "no type", "empty"}
QueuedItem(h, k, type) ==
    [type |-> type, session_id |-> h, agent_answer |-> "", seq |-> k]

\* a worker that handles whatever it pops
handles_any(item) == TRUE

\* lines 50-53: `if not item: continue`, then
\* `if item.get("type") == "dialog_summary"`
handles(item) == item.type # "empty" /\ item.type = "dialog_summary"

\* deque.append(x) with the item put at the head instead
deque_appendleft(q, x) == <<x>> \o q

\* _persist_queue.append(x)
deque_append(q, x) == Append(q, x)

\* deque.pop(): the newest item
deque_pop(q) == [popped |-> q[Len(q)], rest |-> SubSeq(q, 1, Len(q) - 1)]

\* _persist_queue.popleft() on a non-empty deque
deque_popleft(q) == [popped |-> Head(q), rest |-> Tail(q)]

\* an exception handler that puts the failed item back for a retry
requeue_failed(q, it) == Append(q, it)

\* except Exception: logger.warning(...) (lines 76-77): the queue is not touched
persist_failed(q, it) == q

\* an INSERT whose transaction is never committed
insert_uncommitted(rows, row) == rows

\* conn.execute("INSERT INTO dialogs ..."); conn.commit()
insert_dialog(rows, row) == Append(rows, row)

\* search_products with the persistence block outside its inner try: the
\* outer except of line 416 returns the error text
search_products_unguarded(persisted) ==
    IF persisted THEN "json_response" ELSE "search error"

\* search_products, lines 368-414: the persistence block is wrapped in
\* try / except: pass, and json_response is returned after it
search_products_returns(persisted) == "json_response"

\* a lock that does not exclude
worker_lock_ignored == TRUE

\* a SQLite lock that does not exclude
db_lock_ignored == TRUE

OTHER_DB_PATH == "data/other.sqlite3"
Paths == {DB_PATH, OTHER_DB_PATH}

\* an init_db that stores the path of every call that gets through
init_db_last_wins(current, path, raises) ==
    IF raises THEN [db_path |-> current, schema_run |-> FALSE, raised |-> TRUE]
    ELSE [db_path |-> path, schema_run |-> TRUE, raised |-> FALSE]

\* init_db (persistence_sqlite.py lines 12-93), inside `with _lock`: return
\* when _db_path is set; otherwise makedirs, connect and the CREATE TABLEs
\* either raise, before line 93 is reached, or the path is stored
init_db(current, path, raises) ==
    IF current # None THEN [db_path |-> current, schema_run |-> FALSE, raised |-> FALSE]
    ELSE IF raises THEN [db_path |-> None, schema_run |-> FALSE, raised |-> TRUE]
    ELSE [db_path |-> path, schema_run |-> TRUE, raised |-> FALSE]

\* `with _lock` of persistence_sqlite can be entered
db_lock_free == db_lock = Unlocked

\* `with _worker_lock` can be entered
worker_lock_free == worker_lock = Unlocked

\* no thread is inside a direct call of the store
CallersIdle ==
    /\ st_pc = [c \in Handlers |-> "idle"]
    /\ st_arg = [c \in Handlers |-> "none"]
    /\ st_out = [c \in Handlers |-> "none"]
    /\ st_calls = 0

PersistInit ==
    /\ persist_queue = <<>>
    /\ worker_started = FALSE
    /\ worker_lock = Unlocked
    /\ threads = 0
    /\ db_lock = Unlocked
    /\ db_path = None
    /\ tables = [dialogs |-> <<>>, artifacts |-> {}, searches |-> {}, schema_runs |-> 0]
    /\ files = {}
    /\ pc = [h \in Handlers |-> "init_db"]
    /\ response = [h \in Handlers |-> None]
    /\ returned = [h \in Handlers |-> None]
    /\ tool_result = [h \in Handlers |-> None]
    /\ w_pc = "none"
    /\ w_item = NoItem
    /\ handled = <<>>
    /\ appended = <<>>
    /\ write_failed = {}
    /\ faults = 0
    /\ tool_calls = 0
    /\ warnings = {}
    /\ CallersIdle

\* the persist-worker running, the handlers returned, and a queue holding
\* up to MaxQueued items of any kind
QueueInit ==
    /\ \E n \in 0..MaxQueued : \E types \in [1..n -> ItemTypes] :
           /\ persist_queue = [i \in 1..n |-> QueuedItem(1, i, types[i])]
           /\ appended = [i \in 1..n |-> <<1, i>>]
    /\ worker_started = TRUE
    /\ worker_lock = Unlocked
    /\ threads = 1
    /\ db_lock = Unlocked
    /\ db_path = DB_PATH
    /\ tables = [dialogs |-> <<>>, artifacts |-> {}, searches |-> {}, schema_runs |-> 1]
    /\ files = {}
    /\ pc = [h \in Handlers |-> "done"]
    /\ response = [h \in Handlers |-> None]
    /\ returned = [h \in Handlers |-> None]
    /\ tool_result = [h \in Handlers |-> None]
    /\ w_pc = "pop"
    /\ w_item = NoItem
    /\ handled = <<>>
    /\ write_failed = {}
    /\ faults = 0
    /\ tool_calls = 0
    /\ warnings = {}
    /\ CallersIdle

runner_vars == <<persist_queue, worker_started, worker_lock, threads>>
store_vars == <<db_lock, db_path, tables, files>>
worker_vars == <<w_pc, w_item>>
history_vars == <<handled, appended, write_failed, faults, tool_calls, warnings>>
result_vars == <<returned, tool_result>>

Goto(h, where) == pc' = [pc EXCEPT ![h] = where]

(* ------------- create_memory_runner: init_db, _start_worker ------------ *)

\* init_db, `with _lock:` entered
InitDbEnter(h) ==
    /\ pc[h] = "init_db"
    /\ db_lock_free
    /\ db_lock' = h
    /\ Goto(h, "init_db_locked")
    /\ UNCHANGED <<runner_vars, db_path, tables, files, response,
                   worker_vars, history_vars>>
    /\ UNCHANGED <<result_vars, offpath_vars>>

\* init_db, body and exit of the with block: return when _db_path is set;
\* otherwise create the schema and store the path, or raise (makedirs,
\* connect or CREATE TABLE failing), which create_memory_runner catches at
\* line 145, skipping _start_worker
InitDbBody(h) ==
    /\ pc[h] = "init_db_locked"
    /\ db_lock' = Unlocked
    /\ \E raises \in BOOLEAN :
           LET out == init_db(db_path, DB_PATH, raises)
           IN  /\ db_path' = out.db_path
               /\ tables' = [tables EXCEPT !.schema_runs =
                                 IF out.schema_run THEN @ + 1 ELSE @]
               /\ Goto(h, IF out.raised THEN "enqueue_pre" ELSE "start_worker")
    /\ UNCHANGED <<runner_vars, files, response, worker_vars, history_vars>>
    /\ UNCHANGED <<result_vars, offpath_vars>>

\* _start_worker, `with _worker_lock:` entered
StartWorkerEnter(h) ==
    /\ pc[h] = "start_worker"
    /\ worker_lock_free
    /\ worker_lock' = h
    /\ Goto(h, "start_worker_locked")
    /\ UNCHANGED <<persist_queue, worker_started, threads, store_vars,
                   response, worker_vars, history_vars>>
    /\ UNCHANGED <<result_vars, offpath_vars>>

\* lines 37-58: return if the flag is set, else create and start the thread
StartWorkerCheck(h) ==
    /\ pc[h] = "start_worker_locked"
    /\ IF worker_started
       THEN /\ worker_lock' = Unlocked
            /\ Goto(h, "enqueue_pre")
            /\ UNCHANGED <<threads, w_pc>>
       ELSE /\ threads' = threads + 1
            /\ w_pc' = "pop"
            /\ Goto(h, "start_worker_flag")
            /\ UNCHANGED worker_lock
    /\ UNCHANGED <<persist_queue, worker_started, store_vars, response,
                   w_item, history_vars>>
    /\ UNCHANGED <<result_vars, offpath_vars>>

\* lines 59-60: set the flag, leave the with block
StartWorkerFlag(h) ==
    /\ pc[h] = "start_worker_flag"
    /\ worker_started' = TRUE
    /\ worker_lock' = Unlocked
    /\ Goto(h, "enqueue_pre")
    /\ UNCHANGED <<persist_queue, threads, store_vars, response,
                   worker_vars, history_vars>>
    /\ UNCHANGED <<result_vars, offpath_vars>>

(* ------------------- run_with_memory: the two enqueues ----------------- *)

\* what run_with_memory does after the post-response enqueue (lines
\* 256-265): add_session_to_memory and log_db_counts catch their own
\* exceptions (lines 193, 125) and change none of this state; then
\* `return response`
return_response(h) == [returned EXCEPT ![h] = response[h]]

\* enqueue_dialog_summary (lines 80-89): the dict is built and appended;
\* deque.append is one atomic operation, so the call has a single effect.
\* The second call is followed by the return of the handler.
EnqueueDialogSummary(h) ==
    /\ pc[h] \in {"enqueue_pre", "enqueue_post"}
    /\ LET k == IF pc[h] = "enqueue_pre" THEN 1 ELSE 2
           it == DialogItem(h, k, IF k = 1 THEN None ELSE response[h])
       IN  /\ persist_queue' = deque_append(persist_queue, it)
           /\ appended' = Append(appended, ItemId(it))
    /\ Goto(h, IF pc[h] = "enqueue_pre" THEN "run" ELSE "done")
    /\ returned' = IF pc[h] = "enqueue_pre" THEN returned ELSE return_response(h)
    /\ UNCHANGED <<worker_started, worker_lock, threads, store_vars, response,
                   worker_vars, handled, write_failed, faults, tool_calls, warnings>>
    /\ UNCHANGED <<tool_result, offpath_vars>>

(* ------------------- run_with_memory: runner.run_async ----------------- *)

\* the agent calls search_products, which reaches line 389:
\* write_json_artifact on the handler's own path; an exception is swallowed
\* at line 397
ToolWriteArtifact(h) ==
    /\ pc[h] = "run"
    /\ tool_calls < MaxToolCalls
    /\ tool_calls' = tool_calls + 1
    /\ \/ /\ files' = files \cup {[category |-> "search", session_id |-> h, seq |-> 0, by |-> h]}
          /\ Goto(h, "tool_save_artifact")
          /\ UNCHANGED <<faults, tool_result>>
       \/ /\ faults < MaxWriteFailures
          /\ faults' = faults + 1
          /\ UNCHANGED files
          /\ tool_result' = [tool_result EXCEPT ![h] = search_products_returns(FALSE)]
          /\ Goto(h, "agent")
    /\ UNCHANGED <<runner_vars, db_lock, db_path, tables, response,
                   worker_vars, handled, appended, write_failed, warnings>>
    /\ UNCHANGED <<returned, offpath_vars>>

\* save_artifact / save_search, `with _lock:` entered (lines 103, 129)
ToolSaveEnter(h) ==
    /\ pc[h] \in {"tool_save_artifact", "tool_save_search"}
    /\ db_lock_free
    /\ db_lock' = h
    /\ Goto(h, IF pc[h] = "tool_save_artifact" THEN "tool_save_artifact_locked"
                                                 ELSE "tool_save_search_locked")
    /\ UNCHANGED <<runner_vars, db_path, tables, files, response,
                   worker_vars, history_vars>>
    /\ UNCHANGED <<result_vars, offpath_vars>>

\* save_artifact: _conn(), INSERT, commit, close; an exception (no _db_path,
\* a failing INSERT) is swallowed at line 395 and skips save_search
ToolSaveArtifact(h) ==
    /\ pc[h] = "tool_save_artifact_locked"
    /\ db_lock' = Unlocked
    /\ \/ /\ db_path # None
          /\ tables' = [tables EXCEPT !.artifacts = @ \cup {[session_id |-> h, by |-> h]}]
          /\ Goto(h, "tool_save_search")
          /\ UNCHANGED <<faults, tool_result>>
       \/ /\ db_path = None \/ faults < MaxWriteFailures
          /\ faults' = IF db_path = None THEN faults ELSE faults + 1
          /\ UNCHANGED tables
          /\ tool_result' = [tool_result EXCEPT ![h] = search_products_returns(FALSE)]
          /\ Goto(h, "agent")
    /\ UNCHANGED <<runner_vars, db_path, files, response, worker_vars,
                   handled, appended, write_failed, tool_calls, warnings>>
    /\ UNCHANGED <<returned, offpath_vars>>

\* save_search: the same for the searches table
ToolSaveSearch(h) ==
    /\ pc[h] = "tool_save_search_locked"
    /\ db_lock' = Unlocked
    /\ \/ /\ db_path # None
          /\ tables' = [tables EXCEPT !.searches = @ \cup {[session_id |-> h, by |-> h]}]
          /\ tool_result' = [tool_result EXCEPT ![h] = search_products_returns(TRUE)]
          /\ UNCHANGED faults
       \/ /\ db_path = None \/ faults < MaxWriteFailures
          /\ faults' = IF db_path = None THEN faults ELSE faults + 1
          /\ tool_result' = [tool_result EXCEPT ![h] = search_products_returns(FALSE)]
          /\ UNCHANGED tables
    /\ Goto(h, "agent")
    /\ UNCHANGED <<runner_vars, db_path, files, response, worker_vars,
                   handled, appended, write_failed, tool_calls, warnings>>
    /\ UNCHANGED <<returned, offpath_vars>>

\* the event loop of lines 234-241 ends: with a final response, without one
\* (response stays None), or run_async raises and line 269 returns the error text
AgentEnds(h) ==
    /\ pc[h] \in {"run", "agent"}
    /\ \/ /\ \E r \in {None, "answer"} : response' = [response EXCEPT ![h] = r]
          /\ Goto(h, "enqueue_post")
          /\ UNCHANGED returned
       \/ /\ response' = [response EXCEPT ![h] = "error"]
          /\ returned' = [returned EXCEPT ![h] = "error"]
          /\ Goto(h, "failed")
    /\ UNCHANGED <<runner_vars, store_vars, worker_vars, history_vars, tool_result>>
    /\ UNCHANGED offpath_vars

(* ------------- threads calling persistence_sqlite.py directly ---------- *)

\* a thread calls init_db(path) or save_dialog(...)
StoreCall(c) ==
    /\ st_pc[c] = "idle"
    /\ st_calls < MaxStoreCalls
    /\ st_calls' = st_calls + 1
    /\ \E arg \in Paths \cup {"save_dialog"} : st_arg' = [st_arg EXCEPT ![c] = arg]
    /\ st_pc' = [st_pc EXCEPT ![c] = "call"]
    /\ st_out' = [st_out EXCEPT ![c] = "none"]
    /\ UNCHANGED <<runner_vars, store_vars, pc, response, worker_vars, history_vars,
                   result_vars>>
    /\ UNCHANGED <<filter_vars, latency_vars, session_vars, shaper_vars>>

\* `with _lock:` entered (lines 14, 116)
StoreEnter(c) ==
    /\ st_pc[c] = "call"
    /\ db_lock_free
    /\ db_lock' = c
    /\ st_pc' = [st_pc EXCEPT ![c] = "locked"]
    /\ UNCHANGED <<st_arg, st_out, st_calls>>
    /\ UNCHANGED <<runner_vars, db_path, tables, files, pc, response, worker_vars,
                   history_vars, result_vars>>
    /\ UNCHANGED <<filter_vars, latency_vars, session_vars, shaper_vars>>

\* the body of init_db and the exit of its with block
StoreInitDb(c) ==
    /\ st_pc[c] = "locked"
    /\ st_arg[c] \in Paths
    /\ db_lock' = Unlocked
    /\ \E raises \in BOOLEAN :
           LET out == init_db(db_path, st_arg[c], raises)
           IN  /\ db_path' = out.db_path
               /\ tables' = [tables EXCEPT !.schema_runs =
                                 IF out.schema_run THEN @ + 1 ELSE @]
               /\ st_out' = [st_out EXCEPT ![c] =
                                 IF out.raised THEN "raised" ELSE "returned"]
    /\ st_pc' = [st_pc EXCEPT ![c] = "idle"]
    /\ UNCHANGED <<st_arg, st_calls>>
    /\ UNCHANGED <<runner_vars, files, pc, response, worker_vars, history_vars,
                   result_vars>>
    /\ UNCHANGED <<filter_vars, latency_vars, session_vars, shaper_vars>>

\* the body of save_dialog (lines 117-125): _conn() raises RuntimeError
\* while _db_path is unset (lines 96-98), before any INSERT
StoreSaveDialog(c) ==
    /\ st_pc[c] = "locked"
    /\ st_arg[c] = "save_dialog"
    /\ db_lock' = Unlocked
    /\ IF db_path = None
       THEN /\ st_out' = [st_out EXCEPT ![c] = "raised"]
            /\ UNCHANGED tables
       ELSE /\ st_out' = [st_out EXCEPT ![c] = "returned"]
            /\ tables' = [tables EXCEPT !.dialogs =
                   insert_dialog(@, [session_id |-> c, agent_answer |-> "",
                                     seq |-> st_calls, by |-> c])]
    /\ st_pc' = [st_pc EXCEPT ![c] = "idle"]
    /\ UNCHANGED <<st_arg, st_calls>>
    /\ UNCHANGED <<runner_vars, db_path, files, pc, response, worker_vars,
                   history_vars, result_vars>>
    /\ UNCHANGED <<filter_vars, latency_vars, session_vars, shaper_vars>>

StoreStep(c) == StoreCall(c) \/ StoreEnter(c) \/ StoreInitDb(c) \/ StoreSaveDialog(c)

(* --------------------------- the persist-worker ------------------------ *)

\* lines 43-53: popleft; on IndexError wait 0.1 s and retry (the state is
\* the same after the wait); skip an item of another type
WorkerPop ==
    /\ w_pc = "pop"
    /\ IF persist_queue = <<>>
       THEN UNCHANGED <<persist_queue, w_pc, w_item, handled>>
       ELSE LET got == deque_popleft(persist_queue)
            IN  /\ persist_queue' = got.rest
                /\ handled' = Append(handled, ItemId(got.popped))
                /\ IF handles(got.popped)
                   THEN w_pc' = "write_artifact" /\ w_item' = got.popped
                   ELSE w_pc' = "pop" /\ w_item' = NoItem
    /\ UNCHANGED <<worker_started, worker_lock, threads, store_vars, pc,
                   response, appended, write_failed, faults, tool_calls, warnings>>
    /\ UNCHANGED <<result_vars, offpath_vars>>

\* _handle_dialog_summary_item, line 73: write_json_artifact writes the
\* file, or raises into the except of line 76
WorkerWriteArtifact ==
    /\ w_pc = "write_artifact"
    /\ \/ /\ files' = files \cup {[category |-> "dialog", session_id |-> w_item.session_id,
                                   seq |-> w_item.seq, by |-> WorkerThread]}
          /\ w_pc' = "save_dialog"
          /\ UNCHANGED <<persist_queue, w_item, write_failed, faults, warnings>>
       \/ /\ faults < MaxWriteFailures
          /\ faults' = faults + 1
          /\ persist_queue' = persist_failed(persist_queue, w_item)
          /\ write_failed' = write_failed \cup {ItemId(w_item)}
          /\ warnings' = warnings \cup {ItemId(w_item)}
          /\ w_pc' = "pop"
          /\ w_item' = NoItem
          /\ UNCHANGED files
    /\ UNCHANGED <<worker_started, worker_lock, threads, db_lock, db_path,
                   tables, pc, response, handled, appended, tool_calls>>
    /\ UNCHANGED <<result_vars, offpath_vars>>

\* save_dialog, `with _lock:` entered (line 116)
WorkerSaveDialogEnter ==
    /\ w_pc = "save_dialog"
    /\ db_lock_free
    /\ db_lock' = WorkerThread
    /\ w_pc' = "save_dialog_locked"
    /\ UNCHANGED <<runner_vars, db_path, tables, files, pc, response,
                   w_item, history_vars>>
    /\ UNCHANGED <<result_vars, offpath_vars>>

\* save_dialog, lines 117-125: _conn() raises without _db_path; the INSERT
\* and commit succeed, or raise into the except of line 76
WorkerSaveDialog ==
    /\ w_pc = "save_dialog_locked"
    /\ db_lock' = Unlocked
    /\ \/ /\ db_path # None
          /\ tables' = [tables EXCEPT !.dialogs =
                 insert_dialog(@, [session_id |-> w_item.session_id,
                                   agent_answer |-> w_item.agent_answer,
                                   seq |-> w_item.seq, by |-> WorkerThread])]
          /\ UNCHANGED <<persist_queue, write_failed, faults, warnings>>
       \/ /\ db_path = None \/ faults < MaxWriteFailures
          /\ faults' = IF db_path = None THEN faults ELSE faults + 1
          /\ persist_queue' = persist_failed(persist_queue, w_item)
          /\ write_failed' = write_failed \cup {ItemId(w_item)}
          /\ warnings' = warnings \cup {ItemId(w_item)}
          /\ UNCHANGED tables
    /\ w_pc' = "pop"
    /\ w_item' = NoItem
    /\ UNCHANGED <<worker_started, worker_lock, threads, db_path, files, pc,
                   response, handled, appended, tool_calls>>
    /\ UNCHANGED <<result_vars, offpath_vars>>

(***************************************************************************)
(* The EWMA latency statistic of runner_config.py.  run_with_memory calls  *)
(* _update_ewma_latency(elapsed) after the agent run (line 244); the       *)
(* function shares no state with the queue or the store and takes no       *)
(* lock, so its callers are modelled on their own, one step per load and   *)
(* store of a global.  Seconds are kept exactly, in units of 1/Scale s.    *)
(***************************************************************************)
\* _ewma_latency_seconds is None (a latency is never negative)
NoEwma == -1

\* _ewma_alpha = 0.3, in tenths
ewma_alpha == 3

Scale == 10 ^ (MaxUpdates - 1)
ElapsedChoices == {2, 4}

\* the blend with the two weights exchanged
ewma_blend_swapped(e, prev) ==
    ((10 - ewma_alpha) * (e * Scale) + ewma_alpha * prev) \div 10

\* _ewma_alpha * elapsed_seconds + (1 - _ewma_alpha) * _ewma_latency_seconds
ewma_blend(e, prev) ==
    (ewma_alpha * (e * Scale) + (10 - ewma_alpha) * prev) \div 10

\* log_ewma_latency: what it reports
log_ewma_latency ==
    IF ewma_latency_seconds # NoEwma
    THEN <<ewma_latency_seconds, total_runs>>
    ELSE <<"no runs yet">>

LatencyInit ==
    /\ ewma_latency_seconds = NoEwma
    /\ total_runs = 0
    /\ lat_pc = [h \in Handlers |-> "idle"]
    /\ elapsed_seconds = [h \in Handlers |-> 0]
    /\ lat_runs = [h \in Handlers |-> 0]
    /\ lat_ewma = [h \in Handlers |-> 0]
    /\ lat_log = <<>>
    /\ lat_overlap = FALSE

LatGoto(h, where) == lat_pc' = [lat_pc EXCEPT ![h] = where]

\* line 244: _update_ewma_latency(elapsed) is called, elapsed >= 0
UpdateCall(h) ==
    /\ lat_pc[h] = "idle"
    /\ Len(lat_log) < MaxUpdates
    /\ \E e \in ElapsedChoices :
           /\ elapsed_seconds' = [elapsed_seconds EXCEPT ![h] = e]
           /\ lat_log' = Append(lat_log, e)
    /\ lat_overlap' = (lat_overlap \/ \E g \in Handlers \ {h} : lat_pc[g] # "idle")
    /\ LatGoto(h, "load_runs")
    /\ UNCHANGED <<ewma_latency_seconds, total_runs, lat_runs, lat_ewma>>
    /\ UNCHANGED <<filter_vars, persist_vars, session_vars, shaper_vars>>

\* line 94, _total_runs += 1: the global is loaded
UpdateLoadRuns(h) ==
    /\ lat_pc[h] = "load_runs"
    /\ lat_runs' = [lat_runs EXCEPT ![h] = total_runs]
    /\ LatGoto(h, "store_runs")
    /\ UNCHANGED <<ewma_latency_seconds, total_runs, elapsed_seconds, lat_ewma,
                   lat_log, lat_overlap>>
    /\ UNCHANGED <<filter_vars, persist_vars, session_vars, shaper_vars>>

\* line 94: the sum is stored
UpdateStoreRuns(h) ==
    /\ lat_pc[h] = "store_runs"
    /\ total_runs' = lat_runs[h] + 1
    /\ lat_runs' = [lat_runs EXCEPT ![h] = 0]
    /\ LatGoto(h, "test_ewma")
    /\ UNCHANGED <<ewma_latency_seconds, elapsed_seconds, lat_ewma, lat_log,
                   lat_overlap>>
    /\ UNCHANGED <<filter_vars, persist_vars, session_vars, shaper_vars>>

\* line 95: if _ewma_latency_seconds is NoEwma
UpdateTestEwma(h) ==
    /\ lat_pc[h] = "test_ewma"
    /\ LatGoto(h, IF ewma_latency_seconds = NoEwma THEN "store_first" ELSE "load_ewma")
    /\ UNCHANGED <<ewma_latency_seconds, total_runs, elapsed_seconds, lat_runs,
                   lat_ewma, lat_log, lat_overlap>>
    /\ UNCHANGED <<filter_vars, persist_vars, session_vars, shaper_vars>>

\* line 96: _ewma_latency_seconds = elapsed_seconds
UpdateStoreFirst(h) ==
    /\ lat_pc[h] = "store_first"
    /\ ewma_latency_seconds' = elapsed_seconds[h] * Scale
    /\ elapsed_seconds' = [elapsed_seconds EXCEPT ![h] = 0]
    /\ LatGoto(h, "idle")
    /\ UNCHANGED <<total_runs, lat_runs, lat_ewma, lat_log, lat_overlap>>
    /\ UNCHANGED <<filter_vars, persist_vars, session_vars, shaper_vars>>

\* line 98: the global is loaded for the right-hand side
UpdateLoadEwma(h) ==
    /\ lat_pc[h] = "load_ewma"
    /\ lat_ewma' = [lat_ewma EXCEPT ![h] = ewma_latency_seconds]
    /\ LatGoto(h, "store_blend")
    /\ UNCHANGED <<ewma_latency_seconds, total_runs, elapsed_seconds, lat_runs,
                   lat_log, lat_overlap>>
    /\ UNCHANGED <<filter_vars, persist_vars, session_vars, shaper_vars>>

\* line 98: the blend is stored
UpdateStoreBlend(h) ==
    /\ lat_pc[h] = "store_blend"
    /\ ewma_latency_seconds' = ewma_blend(elapsed_seconds[h], lat_ewma[h])
    /\ elapsed_seconds' = [elapsed_seconds EXCEPT ![h] = 0]
    /\ lat_ewma' = [lat_ewma EXCEPT ![h] = 0]
    /\ LatGoto(h, "idle")
    /\ UNCHANGED <<total_runs, lat_runs, lat_log, lat_overlap>>
    /\ UNCHANGED <<filter_vars, persist_vars, session_vars, shaper_vars>>

update_ewma_latency(h) ==
    \/ UpdateCall(h)
    \/ UpdateLoadRuns(h)
    \/ UpdateStoreRuns(h)
    \/ UpdateTestEwma(h)
    \/ UpdateStoreFirst(h)
    \/ UpdateLoadEwma(h)
    \/ UpdateStoreBlend(h)

(***************************************************************************)
(* The session state store of tools/session_state.py.  `state` is the     *)
(* entry under SESSION_ROOT_KEY: root tells whether the entry is missing,  *)
(* is not a dict or is a dict; present is the set of keys of that dict;    *)
(* the other fields are the values of the sections (of no meaning for a    *)
(* key that is not present).  A dict is a set of <<key, value>> pairs, an  *)
(* optional argument is <<>> (None) or <<value>>.                          *)
(***************************************************************************)
Sections == {"current_search", "pagination", "preferences", "context",
             "temp_cart", "timestamps", "artifacts"}
Categories == {"search", "compare"}
Refs == {"ref1", "ref2"}
PageChoices == {<<>>, <<-1>>, <<0>>, <<2>>}
PageSizeChoices == {<<>>, <<-3>>, <<0>>, <<2>>}
FilterChoices == {<<>>, <<"brand=x">>}
PreferenceChoices == {{}, {<<"brand", "a">>}, {<<"brand", "b">>, <<"size", "l">>}}
\* keywords, filters and sort_by of a set_current_search call
SearchArgs ==
    {[keywords |-> "milk", filters |-> f, sort_by |-> <<>>] : f \in FilterChoices}
        \cup {[keywords |-> "tea", filters |-> <<>>, sort_by |-> <<"price">>]}
\* a current_search record found in the state before the first call
StoredSearches == {{}, {<<"keywords", "rice">>, <<"category", "dairy">>}}
NoArgs == [call |-> "none"]
\* the filters_json argument of search_products: absent, not JSON, JSON
\* that is no object, the empty object, an object
FiltersJsonChoices == {"", "{bad", "[1]", "{}", "{brand: y}"}
MalformedFiltersJson == {"{bad", "[1]"}
KeywordChoices == {<<>>, <<"milk">>}
SearchPageChoices == {<<>>, <<2>>}
ContextChoices == {<<>>, <<{<<"last_action", "compare">>}>>}
QuestionChoices == {"", "q"}
CartItems == {"item1"}

\* the value setdefault stores for a missing section (lines 13-19)
DefaultSession ==
    [root |-> "dict", present |-> {},
     current_search |-> {},
     pagination |-> [page |-> 1, page_size |-> 10],
     preferences |-> {},
     context |-> {},
     temp_cart |-> <<>>,
     timestamps |-> {},
     artifacts |-> [c \in Categories |-> <<>>],
     search_state |-> <<>>]

\* _ensure_session_dict that only creates the root entry
ensure_root_only(st) ==
    IF st.root # "dict" THEN DefaultSession ELSE st

\* _ensure_session_dict (lines 8-20): a missing or non-dict root entry is
\* replaced by {}, then every missing section gets its default
ensure_session_dict(st) ==
    LET session == IF st.root # "dict" THEN DefaultSession ELSE st
        SetDefault(key) == IF key \in session.present THEN session[key]
                           ELSE DefaultSession[key]
    IN  [root |-> "dict", present |-> Sections,
         current_search |-> SetDefault("current_search"),
         pagination |-> SetDefault("pagination"),
         preferences |-> SetDefault("preferences"),
         context |-> SetDefault("context"),
         temp_cart |-> SetDefault("temp_cart"),
         timestamps |-> SetDefault("timestamps"),
         artifacts |-> SetDefault("artifacts"),
         search_state |-> st.search_state]

\* session["timestamps"][key] = time.time()
Stamp(session, key) == [session EXCEPT !.timestamps = @ \cup {key}]

\* d[key] = value on a dict
DictSet(d, key, value) == {kv \in d : kv[1] # key} \cup {<<key, value>>}

\* d.update(other)
DictUpdate(d, other) == {kv \in d : \A o \in other : o[1] # kv[1]} \cup other

\* d.get(key, default)
DictGet(d, key, default) ==
    IF \E kv \in d : kv[1] = key THEN (CHOOSE kv \in d : kv[1] = key)[2] ELSE default

\* `x or default` for an optional argument
OrDefault(opt, default) == IF opt = <<>> THEN default ELSE opt[1]

\* max(1, n) left out
no_clamp(n) == n

\* max(1, int(n)) of lines 43 and 45
clamp(n) == Max(1, n)

\* a bucket that keeps only the newest ref
bucket_replace(bucket, ref) == <<ref>>

\* bucket.append(ref) (line 123)
bucket_append(bucket, ref) == Append(bucket, ref)

\* the dict literal of lines 26-30
search_record(keywords, filters, sort_by) ==
    {<<"keywords", keywords>>,
     <<"filters", OrDefault(filters, "{}")>>,
     <<"sort_by", OrDefault(sort_by, "relevant")>>}

\* a set_current_search that updates the stored record in place
set_current_search_merging(st, keywords, filters, sort_by) ==
    LET session == ensure_session_dict(st)
    IN  Stamp([session EXCEPT !.current_search =
                   DictUpdate(@, search_record(keywords, filters, sort_by))],
              "current_search")

\* lines 24-31
set_current_search(st, keywords, filters, sort_by) ==
    LET session == ensure_session_dict(st)
    IN  Stamp([session EXCEPT !.current_search =
                   search_record(keywords, filters, sort_by)],
              "current_search")

\* lines 34-36: the state after the call and the value returned
get_current_search(st) ==
    LET session == ensure_session_dict(st)
    IN  [state |-> session, result |-> session.current_search]

\* lines 40-46; `page or 1` is 1 for None and for 0
set_pagination(st, page, page_size) ==
    LET session == ensure_session_dict(st)
        p == IF page = <<>> \/ page = <<0>> THEN 1 ELSE page[1]
    IN  Stamp([session EXCEPT
                   !.pagination.page = clamp(p),
                   !.pagination.page_size =
                       IF page_size # <<>> THEN clamp(page_size[1]) ELSE @],
              "pagination")

\* lines 49-51
get_pagination(st) ==
    LET session == ensure_session_dict(st)
    IN  [state |-> session, result |-> session.pagination]

\* an update_preferences that stores the argument in place of the dict
update_preferences_replacing(st, is_dict, preferences) ==
    LET session == ensure_session_dict(st)
    IN  IF ~is_dict THEN session
        ELSE Stamp([session EXCEPT !.preferences = preferences], "preferences")

\* lines 55-60: a non-dict argument is ignored
update_preferences(st, is_dict, preferences) ==
    LET session == ensure_session_dict(st)
    IN  IF ~is_dict THEN session
        ELSE Stamp([session EXCEPT !.preferences = DictUpdate(@, preferences)],
                   "preferences")

\* lines 63-65
get_preferences(st) ==
    LET session == ensure_session_dict(st)
    IN  [state |-> session, result |-> session.preferences]

\* lines 69-72
set_conversation_context(st, context) ==
    LET session == ensure_session_dict(st)
    IN  Stamp([session EXCEPT !.context = OrDefault(context, {})], "context")

\* lines 75-77
get_conversation_context(st) ==
    LET session == ensure_session_dict(st)
    IN  [state |-> session, result |-> session.context]

\* lines 80-85
set_last_user_question(st, question) ==
    LET session == ensure_session_dict(st)
    IN  Stamp([session EXCEPT !.context = DictSet(@, "last_user_question", question)],
              "context")

\* lines 88-90
get_last_user_question(st) ==
    LET session == ensure_session_dict(st)
    IN  [state |-> session,
         result |-> DictGet(session.context, "last_user_question", "")]

\* lines 94-99: an item that is no dict or is empty is ignored
add_cart_item(st, is_item, item) ==
    LET session == ensure_session_dict(st)
    IN  IF ~is_item THEN session
        ELSE Stamp([session EXCEPT !.temp_cart = Append(@, item)], "temp_cart")

\* the list without the items of `gone`, order kept
RECURSIVE Without(_, _)
Without(items, gone) ==
    IF items = <<>> THEN <<>>
    ELSE IF Head(items) \in gone THEN Without(Tail(items), gone)
    ELSE <<Head(items)>> \o Without(Tail(items), gone)

\* lines 102-110; the predicate holds for the items of `gone`
remove_cart_item(st, gone) ==
    LET session == ensure_session_dict(st)
        kept == Without(session.temp_cart, gone)
        removed == Len(session.temp_cart) - Len(kept)
        after == [session EXCEPT !.temp_cart = kept]
    IN  [state |-> IF removed # 0 THEN Stamp(after, "temp_cart") ELSE after,
         result |-> removed]

\* lines 113-115
get_cart_items(st) ==
    LET session == ensure_session_dict(st)
    IN  [state |-> session, result |-> session.temp_cart]

\* lines 119-124
add_artifact_ref(st, category, ref) ==
    LET session == ensure_session_dict(st)
    IN  Stamp([session EXCEPT !.artifacts[category] = bucket_append(@, ref)],
              "artifacts:" \o category)

\* lines 126-129
get_artifact_refs(st, category) ==
    LET session == ensure_session_dict(st)
    IN  [state |-> session, result |-> session.artifacts[category]]

\* json.loads: what the string decodes to, or that it raises
json_loads(text) ==
    CASE text = "{bad" -> [raises |-> TRUE]
      [] text = "[1]" -> [raises |-> FALSE, is_dict |-> FALSE, value |-> "[1]"]
      [] text = "{}" -> [raises |-> FALSE, is_dict |-> TRUE, value |-> "{}"]
      [] OTHER -> [raises |-> FALSE, is_dict |-> TRUE, value |-> "brand=y"]

\* a parse that keeps whatever JSON value the string decodes to
parse_any_json(filters_json) ==
    IF filters_json = "" THEN <<>>
    ELSE LET loaded == json_loads(filters_json)
         IN  IF loaded.raises THEN <<>> ELSE <<loaded.value>>

\* search.py lines 191-199: None unless the string decodes to a dict
parse_filters(filters_json) ==
    IF filters_json = "" THEN <<>>
    ELSE LET loaded == json_loads(filters_json)
         IN  IF loaded.raises THEN <<>>
             ELSE IF ~loaded.is_dict THEN <<>>
             ELSE <<loaded.value>>

\* `not filters`: None and the empty dict
Falsy(filters) == filters = <<>> \/ filters = <<"{}">>

\* search_products (search.py lines 177-253 and the return): the state
\* after the call, the filters handed to search_products_antsomi and what
\* is returned
search_products(st, keywords, filters_json, page) ==
    LET parsed == parse_filters(filters_json)
        missing == keywords = <<>>
        cs == get_current_search(st)
        st1 == IF missing THEN cs.state ELSE st
        cs_keywords == DictGet(cs.result, "keywords", "")
        cs_filters == DictGet(cs.result, "filters", "{}")
        backfilled == missing /\ cs_keywords # ""
        keywords1 == IF backfilled THEN <<cs_keywords>> ELSE keywords
        filters == IF backfilled /\ Falsy(parsed)
                   THEN (IF cs_filters = "{}" THEN <<>> ELSE <<cs_filters>>)
                   ELSE parsed
        keywords2 == IF keywords1 = <<>> /\ st.search_state # <<>>
                     THEN st.search_state ELSE keywords1
    IN  IF keywords2 = <<>>
        THEN [state |-> st1, ran_with |-> <<"not run">>, result |-> "no keywords message"]
        ELSE LET p == IF page # <<>> THEN page[1]
                      ELSE get_pagination(st1).result.page
                 page1 == IF p <= 0 THEN 1 ELSE p
                 st2 == set_current_search(get_pagination(st1).state, keywords2[1],
                                           filters, <<>>)
                 st3 == set_pagination(st2, <<page1>>, <<>>)
             IN  [state |-> [st3 EXCEPT !.search_state = keywords2],
                  ran_with |-> filters, result |-> "json_response"]

\* the states a session can be in before the first accessor call
SessionInit ==
    /\ \E root \in {"missing", "not_dict", "dict"} :
       \E present \in {{}, {"pagination"}, Sections} :
       \E stored \in StoredSearches :
           /\ (root # "dict") => present = {}
           /\ ("current_search" \notin present) => stored = {}
           /\ state = [DefaultSession EXCEPT !.root = root, !.present = present,
                                              !.current_search = stored]
           /\ first_root = root
    /\ calls = 0
    /\ last_call = "none"
    /\ last_args = NoArgs
    /\ added = [c \in Categories |-> <<>>]

\* one accessor call: the new state and the history
CalledWith(name, args, new_state) ==
    /\ calls < MaxAccessorCalls
    /\ state' = new_state
    /\ calls' = calls + 1
    /\ last_call' = name
    /\ last_args' = args
    /\ UNCHANGED first_root
    /\ UNCHANGED <<filter_vars, persist_vars, latency_vars, shaper_vars>>

Called(name, new_state) == CalledWith(name, NoArgs, new_state)

SetCurrentSearch ==
    /\ \E args \in SearchArgs :
           CalledWith("set_current_search",
                      [keywords |-> args.keywords, filters |-> args.filters,
                       sort_by |-> args.sort_by,
                       found |-> get_current_search(state).result],
                      set_current_search(state, args.keywords, args.filters, args.sort_by))
    /\ UNCHANGED added

SearchProducts ==
    /\ \E keywords \in KeywordChoices, filters_json \in FiltersJsonChoices,
          page \in SearchPageChoices :
           LET out == search_products(state, keywords, filters_json, page)
           IN  CalledWith("search_products",
                          [keywords |-> keywords, filters_json |-> filters_json,
                           page |-> page, found |-> get_current_search(state).result,
                           ran_with |-> out.ran_with, result |-> out.result],
                          out.state)
    /\ UNCHANGED added

GetCurrentSearch ==
    /\ Called("get_current_search", get_current_search(state).state)
    /\ UNCHANGED added

SetPagination ==
    /\ \E page \in PageChoices, page_size \in PageSizeChoices :
           Called("set_pagination", set_pagination(state, page, page_size))
    /\ UNCHANGED added

GetPagination ==
    /\ Called("get_pagination", get_pagination(state).state)
    /\ UNCHANGED added

UpdatePreferences ==
    /\ \E is_dict \in BOOLEAN, preferences \in PreferenceChoices :
           CalledWith("update_preferences",
                      [is_dict |-> is_dict, preferences |-> preferences,
                       found |-> get_preferences(state).result],
                      update_preferences(state, is_dict, preferences))
    /\ UNCHANGED added

GetPreferences ==
    /\ Called("get_preferences", get_preferences(state).state)
    /\ UNCHANGED added

SetConversationContext ==
    /\ \E context \in ContextChoices :
           Called("set_conversation_context", set_conversation_context(state, context))
    /\ UNCHANGED added

GetConversationContext ==
    /\ Called("get_conversation_context", get_conversation_context(state).state)
    /\ UNCHANGED added

SetLastUserQuestion ==
    /\ \E question \in QuestionChoices :
           Called("set_last_user_question", set_last_user_question(state, question))
    /\ UNCHANGED added

GetLastUserQuestion ==
    /\ Called("get_last_user_question", get_last_user_question(state).state)
    /\ UNCHANGED added

AddCartItem ==
    /\ \E is_item \in BOOLEAN, item \in CartItems :
           Called("add_cart_item", add_cart_item(state, is_item, item))
    /\ UNCHANGED added

RemoveCartItem ==
    /\ \E gone \in SUBSET CartItems :
           Called("remove_cart_item", remove_cart_item(state, gone).state)
    /\ UNCHANGED added

GetCartItems ==
    /\ Called("get_cart_items", get_cart_items(state).state)
    /\ UNCHANGED added

AddArtifactRef ==
    \E category \in Categories, ref \in Refs :
        /\ Called("add_artifact_ref", add_artifact_ref(state, category, ref))
        /\ added' = [added EXCEPT ![category] = Append(@, ref)]

GetArtifactRefs ==
    /\ \E category \in Categories :
           Called("get_artifact_refs", get_artifact_refs(state, category).state)
    /\ UNCHANGED added

SessionIdle ==
    /\ state = DefaultSession
    /\ calls = 0
    /\ last_call = "none"
    /\ last_args = NoArgs
    /\ first_root = "dict"
    /\ added = [c \in Categories |-> <<>>]

(***************************************************************************)
(* The search response shaper of tools/context_optimized_tools.py.  A      *)
(* product carries its position in the input list (id), the outcomes of    *)
(* the string tests of _calculate_product_relevance against a non-empty    *)
(* query, whether its image url is non-empty and the length of its minimal *)
(* JSON form.  Scores are in tenths.  A payload is the dict handed to      *)
(* json.dumps, with the keys the code gives it.                            *)
(***************************************************************************)
\* max_products=10 of the call at line 132, and the cap of line 242
max_products == 10
\* ContextOptimizedToolWrapper(max_output_tokens=500)
max_output_tokens == 500
\* products[:3] of optimize_compare_response
max_compare_products == 3
\* categories[:5] of optimize_explore_response
max_explore_categories == 5

ProductKinds ==
    {[name_exact |-> TRUE, name_token |-> TRUE, category_token |-> FALSE,
      sku_exact |-> FALSE, image_url |-> TRUE, chars |-> 400],
     [name_exact |-> FALSE, name_token |-> TRUE, category_token |-> TRUE,
      sku_exact |-> FALSE, image_url |-> FALSE, chars |-> 150],
     [name_exact |-> FALSE, name_token |-> FALSE, category_token |-> FALSE,
      sku_exact |-> TRUE, image_url |-> TRUE, chars |-> 150],
     [name_exact |-> FALSE, name_token |-> FALSE, category_token |-> FALSE,
      sku_exact |-> FALSE, image_url |-> FALSE, chars |-> 150]}

QueryChoices == {"", "milk"}

\* the product lists handed to the shaper: n products whose kinds repeat a
\* pattern of three
ProductLists ==
    {[i \in 1..n |->
         [id |-> i,
          name_exact |-> pattern[((i - 1) % 3) + 1].name_exact,
          name_token |-> pattern[((i - 1) % 3) + 1].name_token,
          category_token |-> pattern[((i - 1) % 3) + 1].category_token,
          sku_exact |-> pattern[((i - 1) % 3) + 1].sku_exact,
          image_url |-> pattern[((i - 1) % 3) + 1].image_url,
          chars |-> pattern[((i - 1) % 3) + 1].chars]] :
       n \in 0..MaxRecords, pattern \in [1..3 -> ProductKinds]}

\* a score that counts the token match of the name on top of the exact one
calculate_relevance_additive(product, query) ==
    IF query = "" THEN 0
    ELSE (IF product.name_exact THEN 10 ELSE 0)
         + (IF product.name_token THEN 5 ELSE 0)
         + (IF product.category_token THEN 3 ELSE 0)
         + (IF product.sku_exact THEN 8 ELSE 0)

\* _calculate_product_relevance (lines 189-219), in tenths
calculate_product_relevance(product, query) ==
    IF query = "" THEN 0
    ELSE (IF product.name_exact THEN 10
          ELSE IF product.name_token THEN 5 ELSE 0)
         + (IF product.category_token THEN 3 ELSE 0)
         + (IF product.sku_exact THEN 8 ELSE 0)

\* an insertion that puts x before the items of its own score
sorted_insert_before_ties(sorted, x) ==
    LET k == Cardinality({i \in 1..Len(sorted) : sorted[i].score > x.score})
    IN  SubSeq(sorted, 1, k) \o <<x>> \o SubSeq(sorted, k + 1, Len(sorted))

\* list.sort(key=score, reverse=True) is stable: x, taken in input order,
\* goes behind every item whose score is at least its own
sorted_insert(sorted, x) ==
    LET k == Cardinality({i \in 1..Len(sorted) : sorted[i].score >= x.score})
    IN  SubSeq(sorted, 1, k) \o <<x>> \o SubSeq(sorted, k + 1, Len(sorted))

\* scored_products.sort(key=lambda x: x[1], reverse=True) (line 179)
RECURSIVE sort_by_score(_)
sort_by_score(scored) ==
    IF scored = <<>> THEN <<>>
    ELSE sorted_insert(sort_by_score(SubSeq(scored, 1, Len(scored) - 1)),
                       scored[Len(scored)])

\* _create_minimal_product (lines 221-235)
create_minimal_product(product) ==
    [id |-> product.id,
     fields |-> {"id", "name", "price", "image", "productUrl", "category"},
     image_url |-> product.image_url,
     chars |-> product.chars]

\* _select_essential_products (lines 165-187)
select_essential_products(products, query, limit) ==
    LET scored == [i \in 1..Len(products) |->
                      [product |-> products[i],
                       score |-> calculate_product_relevance(products[i], query)]]
        sorted == sort_by_score(scored)
    IN  [i \in 1..Min(limit, Len(sorted)) |-> create_minimal_product(sorted[i].product)]

\* a reduction pass that leaves the items as they are
no_field_reduction(payload) == payload

\* _further_reduce_response (lines 237-253)
further_reduce_response(payload) ==
    LET capped == IF Len(payload.products) > 10
                  THEN [payload EXCEPT !.products = SubSeq(@, 1, 10),
                                        !.message = <<"found", 10, "top 10">>]
                  ELSE payload
    IN  [capped EXCEPT !.products =
            [i \in 1..Len(@) |->
                [@[i] EXCEPT !.fields =
                    (@ \ {"category"}) \
                        (IF capped.products[i].image_url THEN {} ELSE {"image"})]]]

RECURSIVE SumChars(_)
SumChars(products) ==
    IF products = <<>> THEN 0
    ELSE products[1].chars + SumChars(Tail(products))

\* len(json.dumps(response)): the envelope and the products
JsonChars(payload) == 130 + SumChars(payload.products)

\* optimize_search_response (lines 115-163)
optimize_search_response(data, query) ==
    IF data.products = <<>>
    THEN [type |-> "no-results", message |-> <<"not found", query>>]
    ELSE LET essential_products ==
                 select_essential_products(data.products, query, max_products)
             payload ==
                 [type |-> "product-display",
                  message |-> <<"found", Len(essential_products)>>,
                  products |-> essential_products,
                  metadata |-> [total |-> data.total, type |-> data.search_type,
                                showing |-> Len(essential_products)]]
             token_count == estimate_tokens(JsonChars(payload))
         IN  IF token_count > max_output_tokens
             THEN further_reduce_response(payload)
             ELSE payload

\* the lists handed to the two shapers: n entries in input order, of which
\* at most one is not a dict (its .get raises)
EntryLists ==
    {[i \in 1..n |-> [id |-> i, is_dict |-> (i # bad), image_url |-> TRUE,
                      chars |-> 150, count |-> i]] :
       n \in 0..MaxEntries, bad \in 0..MaxEntries}

\* a slice that takes the whole list
whole_list(list, limit) == list

\* products[:3], categories[:5]
Slice(list, limit) == SubSeq(list, 1, Min(limit, Len(list)))

\* optimize_compare_response (lines 255-289)
optimize_compare_response(data, query) ==
    LET products == data.products
        first == Slice(products, max_compare_products)
    IN  IF products = <<>>
        THEN [type |-> "no-results", message |-> <<"nothing to compare">>]
        ELSE IF \E i \in 1..Len(first) : ~first[i].is_dict
        THEN [type |-> "error", message |-> <<"compare error">>]
        ELSE [type |-> "product-comparison",
              message |-> <<"compare", Len(first)>>,
              products |-> [i \in 1..Len(first) |-> create_minimal_product(first[i])]]

\* optimize_explore_response (lines 291-327)
optimize_explore_response(data, query) ==
    LET categories == data.categories
        first == Slice(categories, max_explore_categories)
    IN  IF categories = <<>>
        THEN [type |-> "no-results", message |-> <<"no category found">>]
        ELSE IF \E i \in 1..Len(first) : ~first[i].is_dict
        THEN [type |-> "error", message |-> <<"explore error">>]
        ELSE [type |-> "category-exploration",
              message |-> <<"found", Len(first)>>,
              categories |-> [i \in 1..Len(first) |->
                                 [name |-> first[i].id, count |-> first[i].count]]]

SearchShaperIdle ==
    /\ search_data = [products |-> <<>>, total |-> 0, search_type |-> "search"]
    /\ user_query = ""
    /\ shape_pc = "idle"
    /\ json_response = [type |-> "none"]

OtherShapersIdle ==
    /\ compare_data = [products |-> <<>>]
    /\ compare_pc = "idle"
    /\ compare_response = [type |-> "none"]
    /\ explore_data = [categories |-> <<>>]
    /\ explore_pc = "idle"
    /\ explore_response = [type |-> "none"]

\* either a search payload is about to be shaped, or a comparison and an
\* exploration payload are
ShaperInit ==
    \/ /\ \E products \in ProductLists :
              search_data = [products |-> products, total |-> Len(products),
                             search_type |-> "search"]
       /\ user_query \in QueryChoices
       /\ shape_pc = "call"
       /\ json_response = [type |-> "none"]
       /\ OtherShapersIdle
    \/ /\ SearchShaperIdle
       /\ \E products \in EntryLists : compare_data = [products |-> products]
       /\ compare_pc = "call"
       /\ compare_response = [type |-> "none"]
       /\ \E categories \in EntryLists : explore_data = [categories |-> categories]
       /\ explore_pc = "call"
       /\ explore_response = [type |-> "none"]

ShaperIdle == SearchShaperIdle /\ OtherShapersIdle

ShaperCall ==
    /\ shape_pc = "call"
    /\ json_response' = optimize_search_response(search_data, user_query)
    /\ shape_pc' = "done"
    /\ UNCHANGED <<search_data, user_query, compare_shaper_vars, explore_shaper_vars>>
    /\ UNCHANGED <<filter_vars, persist_vars, latency_vars, session_vars>>

CompareCall ==
    /\ compare_pc = "call"
    /\ compare_response' = optimize_compare_response(compare_data, "compare")
    /\ compare_pc' = "done"
    /\ UNCHANGED <<compare_data, search_shaper_vars, explore_shaper_vars>>
    /\ UNCHANGED <<filter_vars, persist_vars, latency_vars, session_vars>>

ExploreCall ==
    /\ explore_pc = "call"
    /\ explore_response' = optimize_explore_response(explore_data, "explore")
    /\ explore_pc' = "done"
    /\ UNCHANGED <<explore_data, search_shaper_vars, compare_shaper_vars>>
    /\ UNCHANGED <<filter_vars, persist_vars, latency_vars, session_vars>>

vars == <<filter_vars, persist_vars, latency_vars, session_vars, shaper_vars>>

FilterIdle ==
    /\ contents = <<>>
    /\ num_invocations_to_keep = 0
    /\ token_budget = 0
    /\ max_part_chars = 0
    /\ filter_pc = "idle"
    /\ filtered = <<>>

Init == FilterIdle /\ PersistInit /\ LatencyInit /\ SessionIdle /\ ShaperIdle

\* one run_with_memory call, the agent run taken as one step
HandlerStep(h) ==
    \/ InitDbEnter(h)
    \/ InitDbBody(h)
    \/ StartWorkerEnter(h)
    \/ StartWorkerCheck(h)
    \/ StartWorkerFlag(h)
    \/ EnqueueDialogSummary(h)
    \/ AgentEnds(h)

\* search_products called by the agent during the run
ToolStep(h) ==
    \/ ToolWriteArtifact(h)
    \/ ToolSaveEnter(h)
    \/ ToolSaveArtifact(h)
    \/ ToolSaveSearch(h)

WorkerStep ==
    \/ WorkerPop
    \/ WorkerWriteArtifact
    \/ WorkerSaveDialogEnter
    \/ WorkerSaveDialog

Next == (\E h \in Handlers : HandlerStep(h)) \/ WorkerStep

\* the turn handlers and the persist-worker
Spec == Init /\ [][Next]_vars

\* the same with the scheduling of the threads: the persist-worker, a
\* daemon thread in an endless loop, and every handler keep being scheduled
FairSpec ==
    /\ Init
    /\ [][Next]_vars
    /\ WF_vars(WorkerStep)
    /\ \A h \in Handlers : WF_vars(HandlerStep(h))

\* the persist-worker alone, on a queue of arbitrary items
NextWorker == WorkerStep

InitWorker == FilterIdle /\ QueueInit /\ LatencyInit /\ SessionIdle /\ ShaperIdle

SpecWorker == InitWorker /\ [][NextWorker]_vars

\* threads calling init_db and save_dialog directly, with any path
NextStore == \E c \in Handlers : StoreStep(c)

SpecStore == Init /\ [][NextStore]_vars

NextTools == Next \/ (\E h \in Handlers : ToolStep(h))

\* the same with the agents calling search_products during their runs
SpecTools == Init /\ [][NextTools]_vars

NextFilter == FilterCall /\ UNCHANGED <<persist_vars, latency_vars, session_vars, shaper_vars>>

InitFilter == FilterInit /\ PersistInit /\ LatencyInit /\ SessionIdle /\ ShaperIdle

SpecFilter == InitFilter /\ [][NextFilter]_vars

NextLatency == \E h \in Handlers : update_ewma_latency(h)

\* the callers of _update_ewma_latency
SpecLatency == Init /\ [][NextLatency]_vars

NextSession ==
    \/ SetCurrentSearch
    \/ SearchProducts
    \/ GetCurrentSearch
    \/ SetPagination
    \/ GetPagination
    \/ UpdatePreferences
    \/ GetPreferences
    \/ SetConversationContext
    \/ GetConversationContext
    \/ SetLastUserQuestion
    \/ GetLastUserQuestion
    \/ AddCartItem
    \/ RemoveCartItem
    \/ GetCartItems
    \/ AddArtifactRef
    \/ GetArtifactRefs

InitSession == FilterIdle /\ PersistInit /\ LatencyInit /\ SessionInit /\ ShaperIdle

\* the accessors of one session's state, called one after the other
SpecSession == InitSession /\ [][NextSession]_vars

NextShaper == ShaperCall \/ CompareCall \/ ExploreCall

InitShaper == FilterIdle /\ PersistInit /\ LatencyInit /\ SessionIdle /\ ShaperInit

\* one call of optimize_search_response
SpecShaper == InitShaper /\ [][NextShaper]_vars

(***************************************************************************)
(* Properties of the persistence path.                                     *)
(***************************************************************************)
\* enqueue_dialog_summary calls of handler h that have returned
EnqueuedBy(h) ==
    IF pc[h] = "done" THEN 2
    ELSE IF pc[h] \in {"init_db", "init_db_locked", "start_worker",
                       "start_worker_locked", "start_worker_flag",
                       "enqueue_pre"} THEN 0
    ELSE 1

RECURSIVE SumEnqueued(_)
SumEnqueued(hs) ==
    IF hs = {} THEN 0
    ELSE LET h == CHOOSE x \in hs : TRUE IN EnqueuedBy(h) + SumEnqueued(hs \ {h})

WorkerIdle == w_pc = "pop"
DialogIds == {<<tables.dialogs[i].session_id, tables.dialogs[i].seq>> :
                 i \in 1..Len(tables.dialogs)}

\* C5: items are popped in FIFO order by one consumer: the items popped so
\* far are the first ones appended, in append order (each enqueue call takes
\* effect at one instant between its start and its return, so an enqueue
\* that returned before another began comes first in that order), the rest
\* wait in the queue in that order, and there is never a second
\* persist-worker thread.
C5_FifoSingleConsumer ==
    /\ threads <= 1
    /\ appended = handled \o [i \in 1..Len(persist_queue) |-> ItemId(persist_queue[i])]

C5_Witness ==
    /\ Len(handled) >= 3
    /\ handled[1][1] # handled[2][1]
    /\ handled[1][1] = handled[3][1]

\* C6: an item is popped at most once and never put back, whether its
\* writes succeed or fail; a failed write is logged and leaves no dialogs
\* row, and the worker goes on with the next item.
C6_AtMostOnce ==
    /\ \A i, k \in 1..Len(handled) : i # k => handled[i] # handled[k]
    /\ \A i \in 1..Len(persist_queue) : ItemId(persist_queue[i]) \notin Range(handled)
    /\ \A i, k \in 1..Len(tables.dialogs) :
           i # k => ItemId(tables.dialogs[i]) # ItemId(tables.dialogs[k])
    /\ write_failed \subseteq warnings
    /\ write_failed \cap DialogIds = {}
    /\ (w_item # NoItem) => ItemId(w_item) \notin write_failed

C6_Witness ==
    /\ write_failed # {}
    /\ WorkerIdle
    /\ \E i, k \in 1..Len(handled) :
           /\ i < k
           /\ handled[i] \in write_failed
           /\ handled[k] \in DialogIds

\* C7: when the queue is drained and no write has failed, the dialogs
\* table holds exactly one row per enqueued item.
C7_DrainedRowsMatch ==
    (/\ persist_queue = <<>>
     /\ threads >= 1
     /\ WorkerIdle
     /\ write_failed = {})
        => /\ Len(tables.dialogs) = SumEnqueued(Handlers)
           /\ Cardinality(DialogIds) = SumEnqueued(Handlers)
           /\ \A h \in Handlers : \A k \in 1..EnqueuedBy(h) : <<h, k>> \in DialogIds

C7_Witness ==
    /\ persist_queue = <<>>
    /\ WorkerIdle
    /\ write_failed = {}
    /\ \A h \in Handlers : pc[h] \in {"done", "failed"}
    /\ Len(tables.dialogs) >= 4
    /\ tables.dialogs[1].session_id # tables.dialogs[2].session_id

\* C8: at most one persist-worker thread is ever started, and a call of
\* _start_worker that finds the flag set starts none.
C8_WorkerStartedOnce ==
    /\ threads <= 1
    /\ worker_started => threads = 1
    /\ (w_pc = "none") <=> (threads = 0)

C8_Witness ==
    /\ threads = 1
    /\ worker_started
    /\ \E h \in Handlers : pc[h] = "start_worker_locked"

\* C9: enqueue_dialog_summary never blocks: it is enabled whatever the
\* worker and the other handlers are doing, and it puts exactly one item,
\* its own, at the tail of the queue.
C9_EnqueueNeverBlocks ==
    /\ [](\A h \in Handlers :
            pc[h] \in {"enqueue_pre", "enqueue_post"} => ENABLED EnqueueDialogSummary(h))
    /\ [][\A h \in Handlers :
            (pc[h] \in {"enqueue_pre", "enqueue_post"} /\ pc'[h] # pc[h])
                => /\ Len(persist_queue') = Len(persist_queue) + 1
                   /\ SubSeq(persist_queue', 1, Len(persist_queue)) = persist_queue
                   /\ persist_queue'[Len(persist_queue')].session_id = h
                   /\ persist_queue'[Len(persist_queue')].type = "dialog_summary"
                   /\ pc'[h] \in {"run", "done"}]_vars

C9_Witness ==
    /\ w_pc = "save_dialog_locked"
    /\ db_lock = WorkerThread
    /\ persist_queue # <<>>
    /\ \E h1, h2 \in Handlers :
           /\ h1 # h2
           /\ pc[h1] = "enqueue_post"
           /\ pc[h2] = "enqueue_post"

\* C10: files and rows are written by the persist-worker only; a handler
\* never writes one and never waits for or holds the SQLite lock in a save.
C10_OnlyWorkerWrites ==
    /\ \A f \in files : f.by = WorkerThread
    /\ \A r \in tables.artifacts \cup tables.searches : r.by = WorkerThread
    /\ \A h \in Handlers :
           pc[h] \notin {"tool_save_artifact", "tool_save_artifact_locked",
                         "tool_save_search", "tool_save_search_locked"}

(***************************************************************************)
(* Properties of the SQLite lock.                                          *)
(***************************************************************************)
\* the threads inside a `with _lock:` block of persistence_sqlite
InsideDbLock ==
    {h \in Handlers : pc[h] \in {"init_db_locked", "tool_save_artifact_locked",
                                  "tool_save_search_locked"}}
        \cup (IF w_pc = "save_dialog_locked" THEN {WorkerThread} ELSE {})

\* C11: at most one thread (a handler in init_db, save_artifact or
\* save_search, or the persist-worker in save_dialog) is inside the
\* connect/INSERT/commit section, it is the holder of the lock, and the lock
\* is free whenever nobody is inside, whichever way the section was left.
C11_MutualExclusion ==
    /\ Cardinality(InsideDbLock) <= 1
    /\ InsideDbLock = {} <=> db_lock = Unlocked
    /\ InsideDbLock # {} => InsideDbLock = {db_lock}

C11_Witness ==
    /\ w_pc = "save_dialog"
    /\ \E h \in Handlers : pc[h] = "tool_save_search_locked" /\ db_lock = h
    /\ \E id \in write_failed :
           \E f \in files : f.by = WorkerThread /\ <<f.session_id, f.seq>> = id

\* C20: the worker attempts save_dialog for a job whether or not the
\* artifact write of that job raised: after write_json_artifact, successful
\* or not, its next step is save_dialog.
C20_WritesWrappedIndependently ==
    [][(w_pc = "write_artifact" /\ w_pc' # w_pc) => w_pc' = "save_dialog"]_vars

(***************************************************************************)
(* Properties of the values returned on the interactive path.              *)
(***************************************************************************)
\* C14: run_with_memory returns the agent's response (the error text only
\* when the agent run itself raised) and search_products returns its
\* json_response, whether init_db, the artifact write or the INSERTs of the
\* handler's own path or of the worker succeed or raise; a step in which
\* one of them raises changes no response and no returned value.
C14_FailOpen ==
    /\ [](\A h \in Handlers :
            /\ tool_result[h] \in {None, "json_response"}
            /\ pc[h] = "done" => (returned[h] = response[h] /\ returned[h] \in {None, "answer"})
            /\ pc[h] = "failed" <=> returned[h] = "error"
            /\ pc[h] \notin {"done", "failed"} => returned[h] = None)
    /\ [][(faults' # faults \/ write_failed' # write_failed)
            => (response' = response /\ returned' = returned)]_vars

C14_Witness ==
    \E h \in Handlers :
        /\ pc[h] = "done"
        /\ returned[h] = "answer"
        /\ tool_result[h] = "json_response"
        /\ \A f \in files : f.by # h
        /\ faults > 0
        /\ db_path = None

(***************************************************************************)
(* Properties of the latency statistic.                                    *)
(***************************************************************************)
LatencyIdle == \A h \in Handlers : lat_pc[h] = "idle"

\* ewma = 0.3 * e + 0.7 * previous ewma, in units of 1/Scale s
Blend(e, prev) == (3 * (e * Scale) + 7 * prev) \div 10

\* the statistic after update(log[1]), ..., update(log[Len(log)]) in this order
RECURSIVE EwmaOf(_)
EwmaOf(log) ==
    IF log = <<>> THEN NoEwma
    ELSE IF Len(log) = 1 THEN log[1] * Scale
    ELSE Blend(log[Len(log)], EwmaOf(SubSeq(log, 1, Len(log) - 1)))

Orders(n) == {f \in [1..n -> 1..n] : \A i, k \in 1..n : i # k => f[i] # f[k]}

\* C12: whenever all the calls made have completed, _total_runs is their
\* number and the statistic is what the same updates give in one of their
\* sequential orders.
C12_NoLostUpdate ==
    LatencyIdle =>
        /\ total_runs = Len(lat_log)
        /\ \E f \in Orders(Len(lat_log)) :
               ewma_latency_seconds = EwmaOf([i \in 1..Len(lat_log) |-> lat_log[f[i]]])

StandardSections == {"current_search", "pagination", "preferences", "context",
                     "artifacts", "timestamps"}

\* C15: after any accessor call, on any starting state, the root entry is
\* a dict holding all the standard sections; and get_pagination after a
\* single set_current_search returns {page: 1, page_size: 10}.
C15_SectionsPresent ==
    /\ calls > 0 => (state.root = "dict" /\ StandardSections \subseteq state.present)
    /\ (calls = 1 /\ last_call = "set_current_search") =>
           get_pagination(state).result = [page |-> 1, page_size |-> 10]

C15_Witness ==
    /\ calls = 1
    /\ last_call = "set_current_search"
    /\ first_root = "not_dict"
    /\ state.current_search = search_record("milk", <<>>, <<>>)

\* C16: after any sequence of set_pagination calls the stored page and
\* page_size are at least 1, and a call without page_size leaves the
\* stored page_size as it was.
C16_PaginationClamped ==
    /\ [](calls > 0 => (state.pagination.page >= 1 /\ state.pagination.page_size >= 1))
    /\ [][\A page \in PageChoices :
             state' = set_pagination(state, page, <<>>)
                 => state'.pagination.page_size =
                        ensure_session_dict(state).pagination.page_size]_vars

C16_Witness ==
    /\ calls = 3
    /\ last_call = "set_pagination"
    /\ state.pagination = [page |-> 1, page_size |-> 1]
    /\ "pagination" \in state.timestamps

\* C17: for every category get_artifact_refs returns the refs passed to
\* add_artifact_ref for it, in call order, whatever other accessors were
\* called in between; a call of add_artifact_ref appends to its own
\* category and leaves the other lists as they were.
C17_ArtifactRefsAppendOnly ==
    /\ [](\A c \in Categories : get_artifact_refs(state, c).result = added[c])
    /\ [][\A c \in Categories :
             \/ state'.artifacts[c] = ensure_session_dict(state).artifacts[c]
             \/ /\ last_call' = "add_artifact_ref"
                /\ \E ref \in Refs :
                       state'.artifacts[c] = Append(ensure_session_dict(state).artifacts[c], ref)
                /\ \A d \in Categories \ {c} :
                       state'.artifacts[d] = ensure_session_dict(state).artifacts[d]]_vars

C17_Witness ==
    /\ added["search"] = <<"ref2">>
    /\ added["compare"] = <<"ref1">>
    /\ last_call = "set_conversation_context"
    /\ get_artifact_refs(state, "search").result = <<"ref2">>

(***************************************************************************)
(* Properties of the search response shaper.                               *)
(***************************************************************************)
ShapedIds == {json_response.products[i].id : i \in 1..Len(json_response.products)}
ScoreOf(id) == calculate_product_relevance(search_data.products[id], user_query)

\* item a comes before item b in a stable descending order by score
Before(a, b) == ScoreOf(a) > ScoreOf(b) \/ (ScoreOf(a) = ScoreOf(b) /\ a < b)

\* C18: for an empty product list and any query the payload has type
\* "no-results", a message and an empty item list.
C18_NoResultsSentinel ==
    (shape_pc = "done" /\ search_data.products = <<>>) =>
        /\ json_response.type = "no-results"
        /\ "message" \in DOMAIN json_response
        /\ "products" \in DOMAIN json_response
        /\ json_response.products = <<>>

\* C19: for n >= 1 products the payload holds min(n, 10) items, all
\* different products of the input, in descending score order with equal
\* scores in input order, and no product left out comes before one that
\* was kept.
C19_StableTopK ==
    (shape_pc = "done" /\ search_data.products # <<>>) =>
        LET n == Len(search_data.products)
            out == json_response.products
        IN  /\ Len(out) = Min(n, 10)
            /\ json_response.metadata.showing = Len(out)
            /\ Cardinality(ShapedIds) = Len(out)
            /\ ShapedIds \subseteq 1..n
            /\ \A i \in 1..(Len(out) - 1) : Before(out[i].id, out[i + 1].id)
            /\ \A r \in (1..n) \ ShapedIds : \A o \in ShapedIds : Before(o, r)

C19_Witness ==
    /\ shape_pc = "done"
    /\ Len(search_data.products) > 10
    /\ Len(json_response.products) = 10
    /\ \E i \in 1..9 :
           /\ ScoreOf(json_response.products[i].id) = ScoreOf(json_response.products[i + 1].id)
           /\ ScoreOf(json_response.products[i].id) > 0
    /\ \E i \in 1..9 :
           ScoreOf(json_response.products[i].id) > ScoreOf(json_response.products[i + 1].id)
    /\ \E r \in (1..Len(search_data.products)) \ ShapedIds :
           ScoreOf(r) = ScoreOf(json_response.products[10].id)

\* C21: the score of a product is the sum of +1.0 (query in the name),
\* +0.5 (a query token in the name), +0.3 (a query token in the category)
\* and +0.8 (query in the SKU), each counted when it holds, and 0 for an
\* empty query.
C21_AdditiveScore ==
    shape_pc = "done" =>
        \A i \in 1..Len(search_data.products) :
            LET product == search_data.products[i]
            IN  ScoreOf(i) =
                    IF user_query = "" THEN 0
                    ELSE (IF product.name_exact THEN 10 ELSE 0)
                         + (IF product.name_token THEN 5 ELSE 0)
                         + (IF product.category_token THEN 3 ELSE 0)
                         + (IF product.sku_exact THEN 8 ELSE 0)

\* C21 (amended): the name contributes +1.0 when the query is a substring
\* of it and otherwise +0.5 when a query token is in it; +0.3 for a query
\* token in the category and +0.8 for the query in the SKU are added to
\* that; the score is 0 for an empty query and for a record matching nothing.
C21_NameTierPlusCategoryPlusSku ==
    shape_pc = "done" =>
        \A i \in 1..Len(search_data.products) :
            LET product == search_data.products[i]
            IN  ScoreOf(i) =
                    IF user_query = "" THEN 0
                    ELSE (IF product.name_exact THEN 10
                          ELSE IF product.name_token THEN 5 ELSE 0)
                         + (IF product.category_token THEN 3 ELSE 0)
                         + (IF product.sku_exact THEN 8 ELSE 0)

C21_Witness ==
    /\ shape_pc = "done"
    /\ user_query # ""
    /\ \E i \in 1..Len(search_data.products) :
           /\ search_data.products[i].name_exact
           /\ search_data.products[i].name_token
           /\ ScoreOf(i) = 10
    /\ \E i \in 1..Len(search_data.products) :
           /\ ~search_data.products[i].name_exact
           /\ search_data.products[i].category_token
           /\ ScoreOf(i) = 8
    /\ \E i \in 1..Len(search_data.products) : ScoreOf(i) = 0

\* the size estimate of the payload before any reduction
EstimateBeforeReduction ==
    estimate_tokens(JsonChars(
        [products |-> select_essential_products(search_data.products, user_query,
                                                max_products)]))

AllFields == {"id", "name", "price", "image", "productUrl", "category"}

\* C22: when the estimate of the shaped payload exceeds the ceiling, no
\* item has a category, no item has an image with an empty url, every other
\* field is kept and there are at most 10 items; when it does not, every
\* item keeps all six fields.  The items and their order are those of the
\* unreduced payload: the pass runs once.
C22_SingleReductionPass ==
    (shape_pc = "done" /\ search_data.products # <<>>) =>
        LET out == json_response.products
            before == select_essential_products(search_data.products, user_query,
                                                max_products)
        IN  /\ Len(out) <= 10
            /\ Len(out) = Len(before)
            /\ \A i \in 1..Len(out) : out[i].id = before[i].id
            /\ IF EstimateBeforeReduction > max_output_tokens
               THEN \A i \in 1..Len(out) :
                        out[i].fields = IF out[i].image_url
                                        THEN AllFields \ {"category"}
                                        ELSE AllFields \ {"category", "image"}
               ELSE \A i \in 1..Len(out) : out[i].fields = AllFields

C22_Witness ==
    /\ shape_pc = "done"
    /\ EstimateBeforeReduction > max_output_tokens
    /\ Len(json_response.products) = 10
    /\ \E i \in 1..10 : "image" \notin json_response.products[i].fields
    /\ \E i \in 1..10 : "image" \in json_response.products[i].fields

\* C23: a comparison payload has at most 3 products and an exploration
\* payload at most 5 categories, the first ones of the input in input order;
\* an empty input gives the no-results sentinel; every returned payload, the
\* error payload of a shaping that raised included, has a type and a message.
C23_CappedCompareAndExplore ==
    /\ compare_pc = "done" =>
          LET first == SubSeq(compare_data.products, 1, Min(3, Len(compare_data.products)))
          IN  /\ {"type", "message"} \subseteq DOMAIN compare_response
              /\ compare_response.type \in {"no-results", "error", "product-comparison"}
              /\ compare_response.type = "no-results" <=> compare_data.products = <<>>
              /\ compare_response.type = "error" <=>
                     \E i \in 1..Len(first) : ~first[i].is_dict
              /\ compare_response.type = "product-comparison" =>
                     /\ Len(compare_response.products) <= 3
                     /\ Len(compare_response.products) = Len(first)
                     /\ \A i \in 1..Len(first) :
                            compare_response.products[i].id = first[i].id
    /\ explore_pc = "done" =>
          LET first == SubSeq(explore_data.categories, 1, Min(5, Len(explore_data.categories)))
          IN  /\ {"type", "message"} \subseteq DOMAIN explore_response
              /\ explore_response.type \in {"no-results", "error", "category-exploration"}
              /\ explore_response.type = "no-results" <=> explore_data.categories = <<>>
              /\ explore_response.type = "error" <=>
                     \E i \in 1..Len(first) : ~first[i].is_dict
              /\ explore_response.type = "category-exploration" =>
                     /\ Len(explore_response.categories) <= 5
                     /\ Len(explore_response.categories) = Len(first)
                     /\ \A i \in 1..Len(first) :
                            explore_response.categories[i].name = first[i].id
    /\ shape_pc = "done" => {"type", "message"} \subseteq DOMAIN json_response

C23_Witness ==
    /\ compare_pc = "done"
    /\ explore_pc = "done"
    /\ Len(compare_data.products) > 3
    /\ compare_response.type = "product-comparison"
    /\ Len(compare_response.products) = 3
    /\ \E i \in 4..Len(compare_data.products) : ~compare_data.products[i].is_dict
    /\ Len(explore_data.categories) > 5
    /\ explore_response.type = "error"

\* what a section holds before a call: its stored value, or the default
\* that the call creates for a missing one
StoredSection(s) ==
    IF state.root = "dict" /\ s \in state.present THEN state[s] ELSE DefaultSession[s]

Keys(d) == {kv[1] : kv \in d}

\* C24: after set_current_search the current_search record holds exactly
\* keywords, filters and sort_by of this call ({} and "relevant" when
\* omitted), no other key of the record found there is left, the
\* current_search timestamp is set, and pagination, preferences, context,
\* the cart, the artifacts and the other timestamps are as before.
C24_CurrentSearchReplaced ==
    [][(last_call' = "set_current_search" /\ calls' = calls + 1) =>
          LET args == last_args'
          IN  /\ state'.current_search =
                     {<<"keywords", args.keywords>>,
                      <<"filters", IF args.filters = <<>> THEN "{}" ELSE args.filters[1]>>,
                      <<"sort_by", IF args.sort_by = <<>> THEN "relevant"
                                   ELSE args.sort_by[1]>>}
              /\ Keys(state'.current_search) = {"keywords", "filters", "sort_by"}
              /\ "current_search" \in state'.timestamps
              /\ state'.timestamps \ {"current_search"}
                     = StoredSection("timestamps") \ {"current_search"}
              /\ \A s \in {"pagination", "preferences", "context", "temp_cart",
                            "artifacts"} : state'[s] = StoredSection(s)]_vars

C24_Witness ==
    /\ last_call = "set_current_search"
    /\ "category" \in Keys(last_args.found)
    /\ last_args.keywords = "tea"
    /\ state.current_search = {<<"keywords", "tea">>, <<"filters", "{}">>,
                                <<"sort_by", "price">>}

\* C25: after update_preferences with a dict p every key of p has p's
\* value, every stored key that is not in p keeps its value and no key is
\* removed; with an argument that is not a dict the preferences and their
\* timestamp are as before.
C25_ShallowMerge ==
    [][(last_call' = "update_preferences" /\ calls' = calls + 1) =>
          LET p == last_args'.preferences
              old == StoredSection("preferences")
              new == state'.preferences
          IN  IF last_args'.is_dict
              THEN /\ p \subseteq new
                   /\ \A kv \in old : kv[1] \notin Keys(p) => kv \in new
                   /\ Keys(new) = Keys(old) \cup Keys(p)
                   /\ \A kv \in new, other \in new : kv[1] = other[1] => kv = other
                   /\ "preferences" \in state'.timestamps
              ELSE /\ new = old
                   /\ state'.timestamps = StoredSection("timestamps")]_vars

\* a merge that overwrote one key and preserved another
C25_Witness ==
    /\ last_call = "update_preferences"
    /\ last_args.is_dict
    /\ last_args.found = {<<"brand", "b">>, <<"size", "l">>}
    /\ last_args.preferences = {<<"brand", "a">>}
    /\ state.preferences = {<<"brand", "a">>, <<"size", "l">>}

\* C26: a filter string that is not valid JSON, or is JSON but no object,
\* makes search_products run the search with no filters and store the empty
\* default as current_search.filters, and no error is returned because of it.
C26_MalformedFilterDropped ==
    [][(last_call' = "search_products" /\ calls' = calls + 1
        /\ last_args'.filters_json \in MalformedFiltersJson
        /\ last_args'.result # "no keywords message") =>
          /\ last_args'.result = "json_response"
          /\ last_args'.ran_with = <<>>
          /\ DictGet(state'.current_search, "filters", "absent") = "{}"]_vars

\* C26 (amended): a malformed filter string has the effect of an absent
\* one, on the stored state, on the filters of the search and on what is
\* returned; with keywords given that is a search with no filters that
\* stores the empty default.
C26_MalformedFilterAsAbsent ==
    [][(last_call' = "search_products" /\ calls' = calls + 1
        /\ last_args'.filters_json \in MalformedFiltersJson) =>
          LET args == last_args'
              absent == search_products(state, args.keywords, "", args.page)
          IN  /\ state' = absent.state
              /\ args.ran_with = absent.ran_with
              /\ args.result = absent.result
              /\ args.result \in {"json_response", "no keywords message"}
              /\ args.keywords # <<>> =>
                     /\ args.ran_with = <<>>
                     /\ DictGet(state'.current_search, "filters", "absent") = "{}"
                     /\ args.result = "json_response"]_vars

\* a search with keywords and a malformed filter string, after a search
\* that stored filters
C26_Witness ==
    /\ last_call = "search_products"
    /\ last_args.filters_json = "[1]"
    /\ last_args.keywords = <<"milk">>
    /\ DictGet(last_args.found, "filters", "absent") = "brand=y"
    /\ last_args.ran_with = <<>>
    /\ DictGet(state.current_search, "filters", "absent") = "{}"

\* C27: every job that run_with_memory enqueues is eventually dequeued by
\* the persist-worker, whatever the outcome of init_db.
C27_EveryJobDequeued ==
    \A job \in JobIds : (job \in Range(appended)) ~> (job \in Range(handled))

\* the jobs of handler h in a history, and its rows in the dialogs table
JobsOf(h, ids) == SelectSeq(ids, LAMBDA job : job[1] = h)
RowsOf(h) == SelectSeq(tables.dialogs, LAMBDA row : row.session_id = h)
BeforeFirstEnqueue == {"init_db", "init_db_locked", "start_worker",
                       "start_worker_locked", "start_worker_flag", "enqueue_pre"}

\* C28: a run_with_memory call that returns the response has enqueued
\* exactly two jobs for its session, the input-only one (empty agent_answer)
\* from before the model ran and then the one with the response; from the
\* first enqueue until the model has run, and for good when the model run
\* raises, only the first is enqueued; the worker pops and persists the jobs
\* of a session in that order.
C28_TwoJobsInOrder ==
    \A h \in Handlers :
        /\ JobsOf(h, appended) =
               IF pc[h] = "done" THEN <<(<<h, 1>>), (<<h, 2>>)>>
               ELSE IF pc[h] \in BeforeFirstEnqueue THEN <<>>
               ELSE <<(<<h, 1>>)>>
        /\ JobsOf(h, handled) \in {<<>>, <<(<<h, 1>>)>>, <<(<<h, 1>>), (<<h, 2>>)>>}
        /\ \A i \in 1..Len(persist_queue) :
               persist_queue[i].session_id = h =>
                   persist_queue[i].agent_answer =
                       IF persist_queue[i].seq = 1 \/ response[h] = None THEN ""
                       ELSE response[h]
        /\ LET rows == RowsOf(h)
           IN  /\ \A i, k \in 1..Len(rows) : i < k => rows[i].seq < rows[k].seq
               /\ \A i \in 1..Len(rows) :
                      rows[i].agent_answer =
                          IF rows[i].seq = 1 \/ response[h] = None THEN ""
                          ELSE response[h]

C28_Witness ==
    \E h, g \in Handlers :
        /\ pc[h] = "done"
        /\ response[h] = "answer"
        /\ Len(RowsOf(h)) = 2
        /\ RowsOf(h)[1].agent_answer = ""
        /\ RowsOf(h)[2].agent_answer = "answer"
        /\ pc[g] = "failed"
        /\ JobsOf(g, appended) = <<(<<g, 1>>)>>
        /\ persist_queue = <<>>

\* C29: an item popped by the worker that is empty or whose type is not
\* "dialog_summary" is dropped without a file or a row being written and the
\* worker is back at its pop; a dialog_summary item is handed to the
\* handler; a file or a row is only ever written for a dialog_summary item.
C29_OnlyDialogSummaryWritten ==
    /\ [][(w_pc = "pop" /\ persist_queue # <<>> /\ persist_queue' # persist_queue) =>
             LET item == Head(persist_queue)
             IN  /\ persist_queue' = Tail(persist_queue)
                 /\ files' = files /\ tables' = tables
                 /\ IF item.type = "dialog_summary"
                    THEN w_pc' = "write_artifact" /\ w_item' = item
                    ELSE w_pc' = "pop" /\ w_item' = NoItem]_vars
    /\ [][(files' # files \/ tables' # tables) =>
             /\ w_item.type = "dialog_summary"
             /\ w_pc \in {"write_artifact", "save_dialog_locked"}]_vars

\* the first item was dropped (nothing failed, yet it left no file and no
\* row) and the worker went on to write the second
C29_Witness ==
    /\ Len(handled) = 3
    /\ faults = 0
    /\ w_pc = "pop"
    /\ Len(tables.dialogs) = 1
    /\ tables.dialogs[1].seq = 2
    /\ Cardinality(files) = 1

\* C30: once an init_db call has stored its path, no later call, with the
\* same or another path and however the calls interleave, changes _db_path
\* or runs the schema script again; _db_path is only ever set by a call
\* that returns, to that call's path, with one run of the schema script; a
\* call that raises leaves it unset; a save_* call made while it is unset
\* raises and inserts no row.
C30_FirstCallWins ==
    /\ [][db_path # None =>
             (db_path' = db_path /\ tables'.schema_runs = tables.schema_runs)]_vars
    /\ [][db_path' # db_path =>
             \E c \in Handlers :
                 /\ st_pc[c] = "locked" /\ st_pc'[c] = "idle"
                 /\ db_path' = st_arg[c]
                 /\ st_out'[c] = "returned"
                 /\ tables'.schema_runs = tables.schema_runs + 1]_vars
    /\ [][\A c \in Handlers :
             (st_pc[c] = "locked" /\ st_pc'[c] = "idle" /\ st_out'[c] = "raised") =>
                 /\ db_path = None /\ db_path' = None
                 /\ tables' = tables]_vars
    /\ [][\A c \in Handlers :
             (st_pc[c] = "locked" /\ st_pc'[c] = "idle" /\ st_arg[c] = "save_dialog"
              /\ db_path = None) =>
                 st_out'[c] = "raised" /\ tables' = tables]_vars
    /\ [](tables.schema_runs = IF db_path = None THEN 0 ELSE 1)

\* a save_dialog raised while the path was unset, then an init_db stored
\* its path, then an init_db with the other path returned and changed nothing
C30_Witness ==
    \E c, d \in Handlers :
        /\ st_arg[c] = "save_dialog" /\ st_out[c] = "raised"
        /\ st_arg[d] = OTHER_DB_PATH /\ st_out[d] = "returned"
        /\ db_path = DB_PATH
        /\ tables.schema_runs = 1
        /\ tables.dialogs = <<>>

=============================================================================
